---- MODULE Spec2Model ----
(***************************************************************************)
(* XChange-Hub: the rate table of CurrencyChartsFullPage and               *)
(* CurrencyChartsSection (rate fetch with cancellation by staleness, the   *)
(* rows view-model, the synthetic trend), and the asynchronous lookups of  *)
(* CurrencyDropdown and ProfilePage.                                       *)
(*                                                                         *)
(* Numbers.  JavaScript numbers are modelled in fixed point:               *)
(*   - a rate is an integer count of ten-thousandths (83.1 is 831000);     *)
(*   - SAMPLE_RATES is kept in hundredths (0.92 is 92);                    *)
(*   - a trend value is an integer count of ten-thousandths (1 is 10000);  *)
(*   - changePct is an integer count of hundredths of a percent.           *)
(* An absent number (undefined or null) is NoValue.                        *)
(***************************************************************************)
EXTENDS Integers, Sequences, FiniteSets, TLC

(***************************************************************************)
(* Bounds of the model.                                                    *)
(***************************************************************************)
\* Rate requests one component instance issues (mount included).
MaxRequests == 3

(***************************************************************************)
(* Currency codes.  CodeOrder lists every code of the model in the order   *)
(* String.prototype.localeCompare gives to upper-case three-letter codes.  *)
(***************************************************************************)
CodeOrder == <<"AUD", "CAD", "CHF", "EUR", "GBP", "INR", "JPY", "USD", "ZAR">>

AllCodes == {CodeOrder[i] : i \in 1..Len(CodeOrder)}

\* The codes the user picks in the dropdowns of the model.
SelectableCodes == {"USD", "INR", "CHF"}

Rank(code) == CHOOSE i \in 1..Len(CodeOrder) : CodeOrder[i] = code

\* a.localeCompare(b): negative, zero or positive.
localeCompare(a, b) ==
    IF Rank(a) < Rank(b) THEN -1 ELSE IF Rank(a) > Rank(b) THEN 1 ELSE 0

RangeKeys == {"24H", "7D", "30D", "3M"}

\* undefined / null where a number is expected.
NoValue == -1

\* state of an error message that is null.
NoError == "null"

\* !x for a number or undefined: undefined, null and 0 are falsy.
Falsy(x) == x = NoValue \/ x = 0

\* x == null for a number, undefined or null.
Nullish(x) == x = NoValue

(***************************************************************************)
(* Record<string, number>: a sequence of [code, rate] entries with         *)
(* distinct codes, in insertion order (the order Object.keys returns).     *)
(* The rates state is [kind, entries]: kind "null" and "undefined" for the *)
(* two absent values, "map" for an object.                                 *)
(***************************************************************************)
Entry(code, rate) == [code |-> code, rate |-> rate]

MapOf(entries) == [kind |-> "map", entries |-> entries]

NullRates == [kind |-> "null", entries |-> <<>>]

UndefinedRates == [kind |-> "undefined", entries |-> <<>>]

EmptyMap == MapOf(<<>>)

\* Object.keys(m)
ObjectKeys(m) == [i \in 1..Len(m.entries) |-> m.entries[i].code]

\* codes.includes(code)
Includes(codes, code) == \E i \in 1..Len(codes) : codes[i] = code

\* m[code]: the entry's number, undefined when there is none.
Get(m, code) ==
    IF \E i \in 1..Len(m.entries) : m.entries[i].code = code
    THEN m.entries[CHOOSE i \in 1..Len(m.entries) : m.entries[i].code = code].rate
    ELSE NoValue

(***************************************************************************)
(* CurrencyChartsSection: ROWS, SAMPLE_RATES, crossRate.                   *)
(***************************************************************************)
ROWS == <<"USD", "EUR", "GBP", "JPY", "CAD", "AUD", "INR">>

\* in hundredths
SAMPLE_RATES ==
    MapOf(<<Entry("USD", 100), Entry("EUR", 92), Entry("GBP", 78),
            Entry("JPY", 15120), Entry("CAD", 137), Entry("AUD", 152),
            Entry("INR", 8310)>>)

\* 1 base = ? quote, in ten-thousandths; null when either sample is missing.
crossRate(base, quote) ==
    LET baseUsd == Get(SAMPLE_RATES, base)
        quoteUsd == Get(SAMPLE_RATES, quote)
    IN  IF Falsy(baseUsd) \/ Falsy(quoteUsd) THEN NoValue
        ELSE (quoteUsd * 10000) \div baseUsd

(***************************************************************************)
(* makeTrend.  a % b of JavaScript keeps the sign of the dividend.         *)
(***************************************************************************)
JSRem(a, b) == IF a >= 0 THEN a % b ELSE -((-a) % b)

\* spread in thousandths
Spread(rangeKey) ==
    IF rangeKey = "3M" THEN 18
    ELSE IF rangeKey = "30D" THEN 12
    ELSE IF rangeKey = "7D" THEN 8
    ELSE 4

\* ((s * 9301 + 49297) % 233280): rand is (2 * RandRem(s) - 233280) / 233280.
RandRem(s) == JSRem(s * 9301 + 49297, 233280)

\* rand * 233280
RandNum(s) == 2 * RandRem(s) - 233280

\* WalkStep as an additive walk: v + rand * 0.5832
WalkStep_Additive(v, s, rangeKey) == v + (RandNum(s) \div 40)

\* v * (1 + rand * spread), v in ten-thousandths:
\* delta in millionths is RandNum * spread * 1000 / 233280.
WalkStep(v, s, rangeKey) ==
    LET deltaPpm == (RandNum(s) * Spread(rangeKey) * 25) \div 5832
    IN  v + ((v * deltaPpm) \div 1000000)

RECURSIVE Walk(_, _, _, _, _, _)
\* the loop body of makeTrend from step i (0-based) with current value v
Walk(i, length, v, seedShift, idxShift, rangeKey) ==
    IF i >= length THEN <<>>
    ELSE LET nv == WalkStep(v, seedShift * (i + idxShift), rangeKey)
         IN  <<nv>> \o Walk(i + 1, length, nv, seedShift, idxShift, rangeKey)

\* Full_TrendLength with one length for every range
Full_TrendLength_Flat(rangeKey) == 18

Full_TrendLength(rangeKey) ==
    IF rangeKey = "24H" THEN 18
    ELSE IF rangeKey = "7D" THEN 22
    ELSE IF rangeKey = "30D" THEN 26
    ELSE 30

Section_TrendLength(rangeKey) ==
    IF rangeKey = "24H" THEN 16
    ELSE IF rangeKey = "7D" THEN 20
    ELSE IF rangeKey = "30D" THEN 24
    ELSE 28

\* CurrencyChartsFullPage.makeTrend
Full_makeTrend(rangeKey, seed) ==
    Walk(0, Full_TrendLength(rangeKey), 10000, seed + 11, 17, rangeKey)

\* CurrencyChartsSection.makeTrend
Section_makeTrend(rangeKey, seed) ==
    Walk(0, Section_TrendLength(rangeKey), 10000, seed + 7, 11, rangeKey)

\* The seeds the rows use; the trends of these seeds are computed once.
MaxRowSeed == 40

Full_trends ==
    [rangeKey \in RangeKeys |->
        [seed \in 0..MaxRowSeed |-> Full_makeTrend(rangeKey, seed)]]

Section_trends ==
    [rangeKey \in RangeKeys |->
        [seed \in 0..MaxRowSeed |-> Section_makeTrend(rangeKey, seed)]]

\* Number(((last / first - 1) * 100).toFixed(2)), in hundredths of a percent
ChangePct(trend) ==
    LET first == trend[1]
        last == trend[Len(trend)]
    IN  ((last - first) * 20000 + first) \div (2 * first)

(***************************************************************************)
(* The rows view-model (rows useMemo of both components).  The display     *)
(* strings name and flag of a row are left out.                            *)
(***************************************************************************)
Row(code, rate, trend, isFocus) ==
    [code |-> code, rate |-> rate, changePct |-> ChangePct(trend),
     values |-> trend, isFocus |-> isFocus]

\* CompareRows without the focus rule
CompareRows_CodeOnly(a, b) == localeCompare(a.code, b.code)

\* CompareRows ordering the other rows by their change, biggest first
CompareRows_ByChange(a, b) ==
    IF a.isFocus /\ ~b.isFocus THEN -1
    ELSE IF ~a.isFocus /\ b.isFocus THEN 1
    ELSE IF a.changePct > b.changePct THEN -1
    ELSE IF a.changePct < b.changePct THEN 1
    ELSE localeCompare(a.code, b.code)

\* the comparator of result.sort / mapped.sort
CompareRows(a, b) ==
    IF a.isFocus /\ ~b.isFocus THEN -1
    ELSE IF ~a.isFocus /\ b.isFocus THEN 1
    ELSE localeCompare(a.code, b.code)

\* x put into the sorted sequence s, after the elements that do not follow it
InsertRow(x, s) ==
    LET after == {j \in 1..Len(s) : CompareRows(s[j], x) > 0}
        pos == IF after = {} THEN Len(s) + 1
               ELSE CHOOSE j \in after : \A k \in after : j <= k
    IN  SubSeq(s, 1, pos - 1) \o <<x>> \o SubSeq(s, pos, Len(s))

\* SortRows that leaves the rows as built
SortRows_None(seq) == seq

RECURSIVE SortRows(_)
\* Array.prototype.sort with CompareRows (a stable sort)
SortRows(seq) ==
    IF seq = <<>> THEN <<>>
    ELSE InsertRow(seq[Len(seq)], SortRows(SubSeq(seq, 1, Len(seq) - 1)))

\* CurrencyChartsFullPage: the candidate codes (Object.keys plus the focus)
Full_codes(rates, baseCurrency, focusCurrency) ==
    LET keys == ObjectKeys(rates)
    IN  IF focusCurrency # "" /\ focusCurrency # baseCurrency
           /\ ~Includes(keys, focusCurrency)
        THEN <<focusCurrency>> \o keys
        ELSE keys

\* Full_result without the check of the rate
Full_result_NoRateCheck(rates, baseCurrency, focusCurrency, range, inverse) ==
    LET codes == Full_codes(rates, baseCurrency, focusCurrency)
        kept == SelectSeq([i \in 1..Len(codes) |-> i],
                          LAMBDA i : codes[i] # baseCurrency)
    IN  [k \in 1..Len(kept) |->
            Row(codes[kept[k]], Get(rates, codes[kept[k]]),
                Full_trends[range][(kept[k] - 1) + (IF inverse THEN 20 ELSE 0)],
                codes[kept[k]] = focusCurrency)]

\* CurrencyChartsFullPage: result before the sort
Full_result(rates, baseCurrency, focusCurrency, range, inverse) ==
    LET codes == Full_codes(rates, baseCurrency, focusCurrency)
        kept == SelectSeq([i \in 1..Len(codes) |-> i],
                          LAMBDA i : codes[i] # baseCurrency
                                     /\ ~Falsy(Get(rates, codes[i])))
    IN  [k \in 1..Len(kept) |->
            Row(codes[kept[k]], Get(rates, codes[kept[k]]),
                Full_trends[range][(kept[k] - 1) + (IF inverse THEN 20 ELSE 0)],
                codes[kept[k]] = focusCurrency)]

\* CurrencyChartsFullPage: rows
Full_rows(rates, baseCurrency, focusCurrency, range, inverse) ==
    IF rates.kind # "map" THEN <<>>
    ELSE SortRows(Full_result(rates, baseCurrency, focusCurrency, range, inverse))

\* CurrencyChartsSection: list (ROWS with base and focus made present)
Section_list(baseCurrency, focusCurrency) ==
    LET withBase == IF Includes(ROWS, baseCurrency) THEN ROWS
                    ELSE <<baseCurrency>> \o ROWS
    IN  IF Includes(withBase, focusCurrency) THEN withBase
        ELSE <<focusCurrency>> \o withBase

\* Section_rate preferring the sample cross rate
Section_rate_FallbackFirst(rates, baseCurrency, code) ==
    LET apiRate == Get(rates, code)
        fallbackRate == crossRate(baseCurrency, code)
    IN  IF Nullish(fallbackRate) THEN apiRate ELSE fallbackRate

\* CurrencyChartsSection: apiRate ?? fallbackRate
Section_rate(rates, baseCurrency, code) ==
    LET apiRate == Get(rates, code)
        fallbackRate == crossRate(baseCurrency, code)
    IN  IF Nullish(apiRate) THEN fallbackRate ELSE apiRate

\* Section_mapped without the filter that drops the base
Section_mapped_KeepBase(rates, baseCurrency, focusCurrency, range, inverse) ==
    LET filtered == Section_list(baseCurrency, focusCurrency)
        kept == SelectSeq([i \in 1..Len(filtered) |-> i],
                          LAMBDA i : ~Nullish(Section_rate(rates, baseCurrency,
                                                           filtered[i])))
    IN  [k \in 1..Len(kept) |->
            Row(filtered[kept[k]],
                Section_rate(rates, baseCurrency, filtered[kept[k]]),
                Section_trends[range][(kept[k] - 1) + (IF inverse THEN 10 ELSE 0)],
                filtered[kept[k]] = focusCurrency)]

\* CurrencyChartsSection: mapped before the sort
Section_mapped(rates, baseCurrency, focusCurrency, range, inverse) ==
    LET filtered == SelectSeq(Section_list(baseCurrency, focusCurrency),
                              LAMBDA code : code # baseCurrency)
        kept == SelectSeq([i \in 1..Len(filtered) |-> i],
                          LAMBDA i : ~Nullish(Section_rate(rates, baseCurrency,
                                                           filtered[i])))
    IN  [k \in 1..Len(kept) |->
            Row(filtered[kept[k]],
                Section_rate(rates, baseCurrency, filtered[kept[k]]),
                Section_trends[range][(kept[k] - 1) + (IF inverse THEN 10 ELSE 0)],
                filtered[kept[k]] = focusCurrency)]

\* CurrencyChartsSection: rows
Section_rows(rates, baseCurrency, focusCurrency, range, inverse) ==
    SortRows(Section_mapped(rates, baseCurrency, focusCurrency, range, inverse))

(***************************************************************************)
(* The rate service (api.frankfurter.app/latest): what a response to a     *)
(* request for one base currency may carry.                                *)
(***************************************************************************)
\* the service's table, 1 USD in hundredths of each currency
ApiUsd ==
    MapOf(<<Entry("AUD", 151), Entry("CAD", 136), Entry("CHF", 88),
            Entry("EUR", 93), Entry("GBP", 79), Entry("INR", 8300),
            Entry("JPY", 15000), Entry("USD", 100), Entry("ZAR", 1850)>>)

ApiRate(base, code) == (Get(ApiUsd, code) * 10000) \div Get(ApiUsd, base)

\* the regular answer: every requested code but the base, alphabetically
Basket(codes, base) ==
    LET wanted == SelectSeq(CodeOrder, LAMBDA c : c \in codes /\ c # base)
    IN  [i \in 1..Len(wanted) |-> Entry(wanted[i], ApiRate(base, wanted[i]))]

\* a small basket in the service's own order
SmallBasket == <<Entry("INR", 831000), Entry("EUR", 9200)>>

\* a basket with entries equal to 0
ZeroBasket == <<Entry("EUR", 0), Entry("INR", 0), Entry("USD", 10000)>>

\* the rates objects a response may carry for comp's request for base (the
\* service has no table for an empty base)
Snapshots(comp, base) ==
    IF base = "" THEN {SmallBasket, ZeroBasket, <<>>}
    ELSE { Basket(IF comp = "full" THEN AllCodes
                  ELSE {ROWS[i] : i \in 1..Len(ROWS)}, base),
           SmallBasket, ZeroBasket, <<>> }

\* how a request ends: a body with rates, a body without the rates field,
\* a non-success status, a rejected fetch
Outcomes(comp, base) ==
    {[kind |-> "ok", rates |-> MapOf(s)] : s \in Snapshots(comp, base)}
    \cup {[kind |-> k, rates |-> UndefinedRates] :
            k \in {"ok_norates", "http_error", "network_error"}}

(***************************************************************************)
(* State of one chart component instance.                                  *)
(***************************************************************************)
VARIABLES
    component,     \* "full": CurrencyChartsFullPage, "section": CurrencyChartsSection
    mounted,       \* the instance is mounted
    fromCurrency,  \* props
    toCurrency,
    range,         \* useState
    inverse,
    rates,
    loading,       \* loading / ratesLoading
    error,         \* error / ratesError
    requests,      \* the fetches in flight: [id, base, cancelled (the flag of
                   \* the closure of the effect run that issued it)]
    issued,        \* the number of requests issued: the id of the latest
    ratesBase,     \* history: the base of the request whose answer is in rates
    lastAnswer     \* history: what became of the answer that arrived last:
                   \* "discarded", or how the applied answer ended

chartVars == <<component, mounted, fromCurrency, toCurrency, range, inverse,
               rates, loading, error, requests, issued, ratesBase, lastAnswer>>

(***************************************************************************)
(* State of one CurrencyDropdown instance and of one ProfilePage instance. *)
(***************************************************************************)
VARIABLES
    dd_mounted,       \* the CurrencyDropdown instance is mounted
    currencies,       \* useState: [codes, flags (the items carry a flagClass)]
    dd_loading,       \* loading
    apiError,
    dd_request,       \* fetchCurrencies: [cancelled, status]
    prof_mounted,     \* the ProfilePage instance is mounted
    currentLocation,  \* useState
    geo,              \* the geolocation lookup: [pc, lat, lon]
    fxRates,          \* useState
    fxError,
    fx_request        \* the daily-FX fetchRates: [cancelled, status]

asyncVars == <<dd_mounted, currencies, dd_loading, apiError, dd_request,
               prof_mounted, currentLocation, geo, fxRates, fxError, fx_request>>

(***************************************************************************)
(* State of one CurrencyConverterSection instance.                         *)
(***************************************************************************)
VARIABLES
    conv_mounted,       \* the instance is mounted
    conv_fromCurrency,  \* props
    conv_toCurrency,
    liveRate,           \* useState: ten-thousandths, NoValue for null
    rateLoading,
    rateError,
    conv_requests,      \* the fetches in flight: [id, from, to, cancelled]
    conv_issued,        \* the number of requests issued
    conv_lastAnswer     \* history: what became of the answer that arrived last

converterVars == <<conv_mounted, conv_fromCurrency, conv_toCurrency, liveRate,
                   rateLoading, rateError, conv_requests, conv_issued,
                   conv_lastAnswer>>

(***************************************************************************)
(* Calls of makeTrend.                                                     *)
(***************************************************************************)
VARIABLES
    trend_call,    \* the call under way: [site, rangeKey, seed, values]
    trend_first    \* history: what the calls of the first render returned

trendVars == <<trend_call, trend_first>>

(***************************************************************************)
(* State of one GetAlertsSection instance and of its local-storage entry.  *)
(***************************************************************************)
VARIABLES
    al_phase,          \* "none", "constructed" (before the mount effect), "mounted"
    al_fromCurrency,   \* props
    al_toCurrency,
    targetRate,        \* useState: the text of the input
    email,
    busy,
    saved,
    al_error,
    existingAlerts,
    storage,           \* localStorage[ALERTS_KEY]
    al_loaded          \* history: the list loadAlerts returned at mount

alertVars == <<al_phase, al_fromCurrency, al_toCurrency, targetRate, email, busy,
               saved, al_error, existingAlerts, storage, al_loaded>>

(***************************************************************************)
(* State of App: the view on display and the session.                      *)
(***************************************************************************)
VARIABLES
    view,             \* useState
    user,             \* [kind: "null" | "user", email, displayName]
    loginHistory,     \* newest first: [id, timestamp]
    initializing,
    lastUserIdRef,    \* useRef: a uid, "null" for null
    authCompleting,   \* a sign-in of LoginPage or RegisterPage awaits its answer
    signingOut,       \* handleLogout awaits signOut
    app_clock,        \* Date.now()
    auth_prev         \* history: the uid the previous auth-state event carried

appVars == <<view, user, loginHistory, initializing, lastUserIdRef,
             authCompleting, signingOut, app_clock, auth_prev>>

(***************************************************************************)
(* State of one RegisterPage instance.  accountType, useCase and           *)
(* newsletterOptIn, which are only logged, are left out.                   *)
(***************************************************************************)
VARIABLES
    reg_pc,           \* "none", "form", "create" / "updateProfile" (awaiting), "done"
    step,             \* useState
    reg_email,
    password,
    confirmPassword,
    generatedCode,    \* <<>> for null
    codeInputs,
    country,
    agreeTerms,
    firstName,
    lastName,
    reg_error,
    reg_loading

registerVars == <<reg_pc, step, reg_email, password, confirmPassword,
                  generatedCode, codeInputs, country, agreeTerms, firstName,
                  lastName, reg_error, reg_loading>>

(***************************************************************************)
(* State of ProfilePage's card and of its edit modal.  The avatar and the  *)
(* demo alerts, which handleSaveProfile does not touch, are left out.      *)
(***************************************************************************)
VARIABLES
    prof_displayName,      \* useState: the card
    prof_email,
    about,
    socials,               \* [twitter, linkedin, instagram]
    isEditOpen,            \* useState: the modal
    editName,
    editEmail,
    editAbout,
    editTwitter,
    editLinkedin,
    editInstagram,
    oldPassword,
    newPassword,
    edit_confirmPassword,
    socialError,
    passwordError,
    prof_message,
    prof_error,
    savingProfile,
    save_call,             \* handleSaveProfile at an await: [at, trimmedEmail,
                           \* isPasswordChanging, newPassword]
    save_before            \* history: the fields when the save in progress, or
                           \* the save whose error is shown, started

editVars == <<editName, editEmail, editAbout, editTwitter, editLinkedin,
              editInstagram, oldPassword, newPassword, edit_confirmPassword>>

profileVars == <<prof_displayName, prof_email, about, socials, isEditOpen,
                 editVars, socialError, passwordError, prof_message, prof_error,
                 savingProfile, save_call, save_before>>

\* the pages of the signed-in or signing-up user
sessionVars == <<appVars, registerVars, profileVars>>

vars == <<chartVars, asyncVars, converterVars, trendVars, alertVars, sessionVars>>

\* what a step of one family of components leaves alone
outsideCharts == <<asyncVars, converterVars, trendVars, alertVars, sessionVars>>

outsideAsync == <<chartVars, converterVars, trendVars, alertVars, sessionVars>>

outsideConverter == <<chartVars, asyncVars, trendVars, alertVars, sessionVars>>

outsideTrend == <<chartVars, asyncVars, converterVars, alertVars, sessionVars>>

outsideAlerts == <<chartVars, asyncVars, converterVars, trendVars, sessionVars>>

outsideSession == <<chartVars, asyncVars, converterVars, trendVars, alertVars>>

outsideApp == <<outsideSession, registerVars, profileVars>>

outsideRegister == <<outsideSession, appVars, profileVars>>

outsideProfile == <<outsideSession, registerVars>>

\* ratesBase when rates holds no fetched or fallback snapshot
NoBase == "none"

Full_ErrorMessage == "Could not load live FX rates. Please try again."

Section_ErrorMessage == "Using sample rates (FX API unavailable)."

\* BaseOf that ignores the display mode
BaseOf_IgnoreMode(from, to, inv) == from

BaseOf(from, to, inv) == IF inv THEN to ELSE from

baseCurrency == BaseOf(fromCurrency, toCurrency, inverse)

focusCurrency == IF inverse THEN fromCurrency ELSE toCurrency

\* the rows a render builds with range key
RowsFor(key) ==
    IF component = "full"
    THEN Full_rows(rates, baseCurrency, focusCurrency, key, inverse)
    ELSE Section_rows(rates, baseCurrency, focusCurrency, key, inverse)

\* the rows of the current render
rows == RowsFor(range)

Request(id, base) == [id |-> id, base |-> base, cancelled |-> FALSE]

\* the effect's cleanup: cancelled = true in the last run's closure
Cleanup(reqs) ==
    {IF r.id = issued THEN [r EXCEPT !.cancelled = TRUE] ELSE r : r \in reqs}

\* CurrencyChartsFullPage: the effect up to its await, for base nb
Full_effect(nb) ==
    IF nb = ""
    THEN /\ requests' = Cleanup(requests)
         /\ UNCHANGED <<issued, loading, error, rates, ratesBase>>
    ELSE /\ requests' = Cleanup(requests) \cup {Request(issued + 1, nb)}
         /\ issued' = issued + 1
         /\ loading' = TRUE
         /\ error' = NoError
         /\ UNCHANGED <<rates, ratesBase>>

\* CurrencyChartsSection: the effect up to its await, for base nb
Section_effect(nb) ==
    LET targets == SelectSeq(ROWS, LAMBDA code : code # nb)
    IN  IF Len(targets) = 0
        THEN /\ requests' = Cleanup(requests)
             /\ rates' = EmptyMap
             /\ ratesBase' = nb
             /\ loading' = FALSE
             /\ error' = NoError
             /\ UNCHANGED issued
        ELSE /\ requests' = Cleanup(requests) \cup {Request(issued + 1, nb)}
             /\ issued' = issued + 1
             /\ loading' = TRUE
             /\ error' = NoError
             /\ UNCHANGED <<rates, ratesBase>>

\* a render with new props / state: the effect runs again when the base changed
Rerender(nf, nt, ni) ==
    /\ fromCurrency' = nf
    /\ toCurrency' = nt
    /\ inverse' = ni
    /\ IF BaseOf(nf, nt, ni) # baseCurrency
       THEN /\ issued < MaxRequests
            /\ IF component = "full"
               THEN Full_effect(BaseOf(nf, nt, ni))
               ELSE Section_effect(BaseOf(nf, nt, ni))
       ELSE UNCHANGED <<requests, issued, loading, error, rates, ratesBase>>

(***************************************************************************)
(* CurrencyDropdown: the currency list.                                    *)
(***************************************************************************)
FALLBACK_CURRENCIES ==
    <<"USD", "EUR", "GBP", "INR", "JPY", "AUD", "CAD", "CHF", "CNY", "SGD">>

Dropdown_ErrorMessage == "Using fallback list (API unavailable)."

\* next.sort((a, b) => a.code.localeCompare(b.code)) on distinct codes
SortCodes(codes) ==
    [p \in 1..Len(codes) |->
        codes[CHOOSE i \in 1..Len(codes) :
                Cardinality({j \in 1..Len(codes) :
                                localeCompare(codes[j], codes[i]) < 0}) = p - 1]]

\* the answers of api.frankfurter.app/currencies: the codes in the body's order
CurrencyLists == { CodeOrder, <<"USD", "EUR", "AUD">>, <<>> }

Dropdown_Outcomes ==
    {[kind |-> "ok", codes |-> l] : l \in CurrencyLists}
    \cup {[kind |-> k, codes |-> <<>>] : k \in {"http_error", "network_error"}}

(***************************************************************************)
(* ProfilePage: the daily FX rates and the device location.                *)
(***************************************************************************)
\* rates in ten-thousandths
FX_FALLBACK ==
    [usdInr |-> 831000, eurUsd |-> 10900, usdAed |-> 36700, asOfDate |-> "null"]

Profile_FxErrorMessage == "using last 24h sample rate."

\* the three bodies of the daily-FX fetch: each rate a number or missing
Fx_Outcomes ==
    {[kind |-> "ok", inr |-> a, usd |-> b, aed |-> c, date |-> d] :
        a \in {NoValue, 835000}, b \in {NoValue, 10800},
        c \in {NoValue, 36725}, d \in {"null", "2024-05-01"}}
    \cup {[kind |-> k, inr |-> NoValue, usd |-> NoValue, aed |-> NoValue,
           date |-> "null"] : k \in {"http_error", "network_error"}}

\* a location text
Text(t) == [kind |-> "text", parts |-> <<t>>, lat |-> 0, lon |-> 0]

\* parts.join(", ")
Joined(parts) == [kind |-> "joined", parts |-> parts, lat |-> 0, lon |-> 0]

\* x.toFixed(2) of a number in ten-thousandths, in hundredths
ToFixed2(x) == (x + 50) \div 100

\* `Lat ${latitude.toFixed(2)}, Lon ${longitude.toFixed(2)}`
LatLon(lat, lon) ==
    [kind |-> "latlon", parts |-> <<>>, lat |-> ToFixed2(lat), lon |-> ToFixed2(lon)]

\* String(code).toUpperCase() on the country codes of the model
ToUpperCase(code) ==
    IF code = "in" THEN "IN" ELSE IF code = "gb" THEN "GB" ELSE code

\* a || b for strings: the empty string (and a missing field) is falsy
OrElse(a, b) == IF a # "" THEN a ELSE b

\* an address object without any of the fields read ("" : field missing)
NoAddress ==
    [city |-> "", town |-> "", village |-> "", hamlet |-> "", suburb |-> "",
     state |-> "", region |-> "", country_code |-> ""]

\* the address objects a reverse-geocoding answer carries
Addresses ==
    { [NoAddress EXCEPT !.city = "Hyderabad", !.suburb = "Madhapur",
                        !.state = "Telangana", !.country_code = "in"],
      [NoAddress EXCEPT !.town = "Ely", !.region = "East of England",
                        !.country_code = "gb"],
      NoAddress }

\* the location shown for an address
LocationOf(addr) ==
    LET city == OrElse(addr.city, OrElse(addr.town, OrElse(addr.village,
                   OrElse(addr.hamlet, addr.suburb))))
        state == OrElse(addr.state, addr.region)
        countryCode == IF addr.country_code # ""
                       THEN ToUpperCase(addr.country_code) ELSE ""
        parts == SelectSeq(<<city, state, countryCode>>, LAMBDA x : x # "")
    IN  IF Len(parts) > 0 THEN Joined(parts) ELSE Text("Location detected")

\* the positions of the model, in ten-thousandths of a degree
Positions == { <<173850, 784867>>, <<-338651, 1512099>> }

\* how getCurrentPosition ends
Position_Outcomes ==
    {[kind |-> "position", lat |-> p[1], lon |-> p[2]] : p \in Positions}
    \cup {[kind |-> k, lat |-> 0, lon |-> 0] : k \in {"denied", "failed"}}

\* how the reverse-geocoding fetch ends
Reverse_Outcomes ==
    {[kind |-> "ok", address |-> a] : a \in Addresses}
    \cup {[kind |-> k, address |-> NoAddress] : k \in {"http_error", "network_error"}}

NoFetch == [cancelled |-> FALSE, status |-> "none"]

PendingFetch == [cancelled |-> FALSE, status |-> "pending"]

\* no chart component instance exists
ChartsIdle ==
    /\ component = "none"
    /\ mounted = FALSE
    /\ fromCurrency = "USD"
    /\ toCurrency = "INR"
    /\ range = "24H"
    /\ inverse = FALSE
    /\ rates = EmptyMap
    /\ ratesBase = NoBase
    /\ loading = FALSE
    /\ error = NoError
    /\ requests = {}
    /\ issued = 0
    /\ lastAnswer = "none"

\* no CurrencyDropdown and no ProfilePage instance exists
AsyncIdle ==
    /\ dd_mounted = FALSE
    /\ currencies = [codes |-> FALLBACK_CURRENCIES, flags |-> FALSE]
    /\ dd_loading = FALSE
    /\ apiError = NoError
    /\ dd_request = NoFetch
    /\ prof_mounted = FALSE
    /\ currentLocation = Text("Detecting location...")
    /\ geo = [pc |-> "done", lat |-> 0, lon |-> 0]
    /\ fxRates = FX_FALLBACK
    /\ fxError = NoError
    /\ fx_request = NoFetch

\* no CurrencyConverterSection instance exists
ConverterIdle ==
    /\ conv_mounted = FALSE
    /\ conv_fromCurrency = "USD"
    /\ conv_toCurrency = "INR"
    /\ liveRate = NoValue
    /\ rateLoading = FALSE
    /\ rateError = NoError
    /\ conv_requests = {}
    /\ conv_issued = 0
    /\ conv_lastAnswer = "none"

(***************************************************************************)
(* GetAlertsSection: texts, numbers, JSON and the stored alerts.  A text   *)
(* is the sequence of its characters.  A number is [kind, value]: kind     *)
(* "finite" with the value in ten-thousandths, "nan", "inf", or "null"     *)
(* for what JSON makes of a number that is not finite.                     *)
(***************************************************************************)
\* str.trim()
Trim(str) ==
    LET solid == {i \in 1..Len(str) : str[i] # " "}
    IN  IF solid = {} THEN <<>>
        ELSE SubSeq(str, CHOOSE i \in solid : \A j \in solid : i <= j,
                         CHOOSE i \in solid : \A j \in solid : i >= j)

\* str.includes(ch)
StrIncludes(str, ch) == \E i \in 1..Len(str) : str[i] = ch

Finite(v) == [kind |-> "finite", value |-> v]

NaN == [kind |-> "nan", value |-> 0]

PosInfinity == [kind |-> "inf", value |-> 0]

DigitChars == <<"0", "1", "2", "3", "4", "5", "6", "7", "8", "9">>

IsDigit(ch) == \E i \in 1..10 : DigitChars[i] = ch

DigitValue(ch) == (CHOOSE i \in 1..10 : DigitChars[i] = ch) - 1

RECURSIVE DigitsValue(_)
\* the value of a run of decimal digits
DigitsValue(ds) ==
    IF ds = <<>> THEN 0
    ELSE DigitsValue(SubSeq(ds, 1, Len(ds) - 1)) * 10 + DigitValue(ds[Len(ds)])

\* Number(str) for the texts of the model: blank is 0, "Infinity" is
\* Infinity, an optional "-" with decimal digits and at most one "." is its
\* value (four decimals kept), anything else is NaN
Number(str) ==
    LET t == Trim(str)
        neg == t # <<>> /\ t[1] = "-"
        body == IF neg THEN Tail(t) ELSE t
        dots == {i \in 1..Len(body) : body[i] = "."}
        dot == IF dots = {} THEN Len(body) + 1 ELSE CHOOSE i \in dots : TRUE
        intPart == SubSeq(body, 1, dot - 1)
        fracPart == SubSeq(body, dot + 1, Len(body))
        frac4 == [i \in 1..4 |-> IF i <= Len(fracPart) THEN fracPart[i] ELSE "0"]
        abs == DigitsValue(intPart) * 10000 + DigitsValue(frac4)
    IN  IF t = <<>> THEN Finite(0)
        ELSE IF t = <<"I", "n", "f", "i", "n", "i", "t", "y">> THEN PosInfinity
        ELSE IF /\ Cardinality(dots) <= 1
                /\ Len(intPart) + Len(fracPart) > 0
                /\ \A i \in 1..Len(body) : i = dot \/ IsDigit(body[i])
             THEN Finite(IF neg THEN -abs ELSE abs)
        ELSE NaN

\* Number.isFinite(n)
IsFinite(n) == n.kind = "finite"

RECURSIVE DigitsOf(_)
\* the decimal digits of a natural number
DigitsOf(n) ==
    IF n < 10 THEN <<DigitChars[n + 1]>>
    ELSE DigitsOf(n \div 10) \o <<DigitChars[(n % 10) + 1]>>

\* preset.toFixed(4) for a preset >= 0 in ten-thousandths
ToFixed4(x) ==
    DigitsOf(x \div 10000) \o <<".">>
        \o [i \in 1..4 |-> DigitChars[((x \div (10 ^ (4 - i))) % 10) + 1]]

\* the SavedAlert handleSubmit builds at clock reading now: id is the decimal
\* text and createdAt the ISO text of the reading
Alert(from, to, t, mail, now) ==
    [tag |-> "alert", id |-> now, from |-> from, to |-> to, threshold |-> t,
     email |-> mail, createdAt |-> now, schedule |-> <<"06:00", "19:00">>]

\* an array element that is no SavedAlert
OtherItem ==
    [tag |-> "other", id |-> 0, from |-> "", to |-> "", threshold |-> NaN,
     email |-> <<>>, createdAt |-> 0, schedule |-> <<>>]

\* JSON.stringify of a number: null unless finite
JsonOfNumber(n) == IF IsFinite(n) THEN n ELSE [kind |-> "null", value |-> 0]

\* JSON.stringify of one array element
JsonOf(item) ==
    [item EXCEPT !.tag = IF @ = "alert" THEN "json_object" ELSE "json_other",
                 !.threshold = JsonOfNumber(@)]

\* JSON.stringify(alerts)
JSON_stringify(alerts) ==
    [kind |-> "array", items |-> [i \in 1..Len(alerts) |-> JsonOf(alerts[i])],
     full |-> FALSE]

\* one element of a parsed array
ParseItem(j) ==
    [j EXCEPT !.tag = IF @ = "json_object" THEN "alert" ELSE "other"]

\* JSON.parse(raw): throws on "" and on text that is no JSON
JSON_parse(raw) ==
    [threw |-> raw.kind \in {"empty", "invalid"},
     isArray |-> raw.kind = "array",
     items |-> [i \in 1..Len(raw.items) |-> ParseItem(raw.items[i])]]

\* the entry is missing: getItem returns null (full: the quota is used up)
NoEntry == [kind |-> "null", items |-> <<>>, full |-> FALSE]

\* an alert saved by an earlier visit
EarlierAlert ==
    Alert("INR", "USD", Finite(120), <<"x", "@", "y", ".", "z">>, 0)

\* what the entry may hold when the page is opened: nothing, "", text that
\* is no JSON, JSON that is no array, arrays; "denied": localStorage throws;
\* with the quota used up every setItem throws
StoredEntries ==
    {NoEntry} \cup {[kind |-> k, items |-> <<>>, full |-> FALSE] :
                      k \in {"empty", "invalid", "nonarray", "denied"}}
    \cup {JSON_stringify(<<OtherItem>>), JSON_stringify(<<EarlierAlert>>)}
    \cup {[NoEntry EXCEPT !.full = TRUE],
          [JSON_stringify(<<EarlierAlert>>) EXCEPT !.full = TRUE]}

\* loadAlerts without its try / catch
loadAlerts_NoCatch(store) ==
    IF store.kind = "denied" THEN [threw |-> TRUE, value |-> <<>>]
    ELSE IF store.kind \in {"null", "empty"} THEN [threw |-> FALSE, value |-> <<>>]
    ELSE LET parsed == JSON_parse(store)
         IN  IF parsed.threw THEN [threw |-> TRUE, value |-> <<>>]
             ELSE [threw |-> FALSE,
                   value |-> IF parsed.isArray THEN parsed.items ELSE <<>>]

\* loadAlerts(): its value, and whether an exception leaves it
loadAlerts(store) ==
    IF store.kind = "denied" THEN [threw |-> FALSE, value |-> <<>>]
    ELSE IF store.kind \in {"null", "empty"} THEN [threw |-> FALSE, value |-> <<>>]
    ELSE LET parsed == JSON_parse(store)
         IN  IF parsed.threw THEN [threw |-> FALSE, value |-> <<>>]
             ELSE [threw |-> FALSE,
                   value |-> IF parsed.isArray THEN parsed.items ELSE <<>>]

\* saveAlerts(alerts): the entry afterwards; a setItem that throws (storage
\* denied, quota used up) is ignored
saveAlerts(store, alerts) ==
    IF store.kind = "denied" \/ store.full THEN store
    ELSE JSON_stringify(alerts)

\* UpdatedList with the new alert put last
UpdatedList_Append(alert, alerts) == alerts \o <<alert>>

\* handleSubmit's updated: [alert, ...existingAlerts]
UpdatedList(alert, alerts) == <<alert>> \o alerts

\* validateForm without the check of the target rate's value
validateForm_AnyRate(from, to, rateText, mailText) ==
    IF from = "" \/ to = "" THEN "Please select both currencies."
    ELSE IF from = to THEN "From and To currencies should be different."
    ELSE IF Trim(rateText) = <<>> THEN "Please enter a target rate."
    ELSE IF Trim(mailText) = <<>> THEN "Please enter an email for the alert."
    ELSE IF ~StrIncludes(mailText, "@") \/ ~StrIncludes(mailText, ".")
         THEN "Please enter a valid email address."
    ELSE NoError

\* the message validateForm sets, NoError when the form is valid
validateForm(from, to, rateText, mailText) ==
    IF from = "" \/ to = "" THEN "Please select both currencies."
    ELSE IF from = to THEN "From and To currencies should be different."
    ELSE IF Trim(rateText) = <<>> THEN "Please enter a target rate."
    ELSE IF ~IsFinite(Number(rateText)) \/ Number(rateText).value <= 0
         THEN "Target rate must be a positive number."
    ELSE IF Trim(mailText) = <<>> THEN "Please enter an email for the alert."
    ELSE IF ~StrIncludes(mailText, "@") \/ ~StrIncludes(mailText, ".")
         THEN "Please enter a valid email address."
    ELSE NoError

\* no GetAlertsSection instance exists
AlertsIdle ==
    /\ al_phase = "none"
    /\ al_fromCurrency = "USD"
    /\ al_toCurrency = "INR"
    /\ targetRate = <<>>
    /\ email = <<>>
    /\ busy = FALSE
    /\ saved = FALSE
    /\ al_error = NoError
    /\ existingAlerts = <<>>
    /\ storage = NoEntry
    /\ al_loaded = <<>>

\* user = null
NullUser == [kind |-> "null", email |-> <<>>, displayName |-> <<>>]

\* App is not part of the run
AppIdle ==
    /\ view = "none"
    /\ user = NullUser
    /\ loginHistory = <<>>
    /\ initializing = FALSE
    /\ lastUserIdRef = "null"
    /\ authCompleting = FALSE
    /\ signingOut = FALSE
    /\ app_clock = 0
    /\ auth_prev = "none"

\* no RegisterPage is part of the run
RegisterIdle ==
    /\ reg_pc = "none"
    /\ step = 1
    /\ reg_email = <<>>
    /\ password = <<>>
    /\ confirmPassword = <<>>
    /\ generatedCode = <<>>
    /\ codeInputs = <<<<>>, <<>>, <<>>, <<>>, <<>>, <<>>>>
    /\ country = "United States"
    /\ agreeTerms = FALSE
    /\ firstName = <<>>
    /\ lastName = <<>>
    /\ reg_error = NoError
    /\ reg_loading = FALSE

NoSocials == [twitter |-> <<>>, linkedin |-> <<>>, instagram |-> <<>>]

\* the fields of the profile: the card's and the user App holds
ProfileFields ==
    [displayName |-> prof_displayName, email |-> prof_email, about |-> about,
     socials |-> socials, user |-> user]

\* handleSaveProfile is not at an await
NoSave ==
    [at |-> "idle", trimmedEmail |-> <<>>, isPasswordChanging |-> FALSE,
     newPassword |-> <<>>]

\* no ProfilePage card is part of the run
ProfileIdle ==
    /\ prof_displayName = <<>>
    /\ prof_email = <<>>
    /\ about = <<>>
    /\ socials = NoSocials
    /\ isEditOpen = FALSE
    /\ editName = <<>>
    /\ editEmail = <<>>
    /\ editAbout = <<>>
    /\ editTwitter = <<>>
    /\ editLinkedin = <<>>
    /\ editInstagram = <<>>
    /\ oldPassword = <<>>
    /\ newPassword = <<>>
    /\ edit_confirmPassword = <<>>
    /\ socialError = NoError
    /\ passwordError = NoError
    /\ prof_message = NoError
    /\ prof_error = NoError
    /\ savingProfile = FALSE
    /\ save_call = NoSave
    /\ save_before = ProfileFields

SessionIdle == AppIdle /\ RegisterIdle /\ ProfileIdle

\* no call of makeTrend is under way
NoCall == [site |-> "none", rangeKey |-> "24H", seed |-> 0, values |-> <<>>]

\* no call of makeTrend is followed
TrendIdle ==
    /\ trend_call = NoCall
    /\ trend_first = <<>>

\* a chart component after mount: the effect has run up to its await
ChartsMounted ==
    /\ component \in {"full", "section"}
    /\ mounted = TRUE
    /\ fromCurrency = "USD"
    /\ toCurrency = "INR"
    /\ range = "24H"
    /\ inverse = FALSE
    /\ rates = IF component = "full" THEN NullRates ELSE EmptyMap
    /\ ratesBase = NoBase
    /\ loading = TRUE
    /\ error = NoError
    /\ requests = {Request(1, "USD")}
    /\ issued = 1
    /\ lastAnswer = "none"

Init ==
    /\ AsyncIdle
    /\ ConverterIdle
    /\ TrendIdle
    /\ AlertsIdle
    /\ SessionIdle
    /\ ChartsMounted

\* the From dropdown (onChange = setFromCurrency)
SetFromCurrency(code) ==
    /\ mounted
    /\ Rerender(code, toCurrency, inverse)
    /\ UNCHANGED <<component, mounted, range, lastAnswer>>
    /\ UNCHANGED outsideCharts

\* the To dropdown (onChange = setToCurrency)
SetToCurrency(code) ==
    /\ mounted
    /\ Rerender(fromCurrency, code, inverse)
    /\ UNCHANGED <<component, mounted, range, lastAnswer>>
    /\ UNCHANGED outsideCharts

handleSwapPair ==
    /\ mounted
    /\ Rerender(toCurrency, fromCurrency, inverse)
    /\ UNCHANGED <<component, mounted, range, lastAnswer>>
    /\ UNCHANGED outsideCharts

\* setInverse((v) => !v)
ToggleInverse ==
    /\ mounted
    /\ Rerender(fromCurrency, toCurrency, ~inverse)
    /\ UNCHANGED <<component, mounted, range, lastAnswer>>
    /\ UNCHANGED outsideCharts

SetRange(key) ==
    /\ mounted
    /\ range' = key
    /\ UNCHANGED <<component, mounted, fromCurrency, toCurrency, inverse, rates,
                   loading, error, requests, issued, ratesBase, lastAnswer>>
    /\ UNCHANGED outsideCharts

\* how an applied answer ended: with a rates object, without the rates
\* field, or failed (a non-success status or a rejected fetch)
AnswerKind(o) ==
    IF o.kind \in {"http_error", "network_error"} THEN "failed" ELSE o.kind

\* the staleness check of load: the closure's flag
Full_cancelled(r) == r.cancelled

\* Section_cancelled that never sees the flag set
Section_cancelled_Never(r) == FALSE

\* the staleness check of fetchRates: the closure's flag
Section_cancelled(r) == r.cancelled

\* CurrencyChartsFullPage.load after its awaits, for request r ending as o
Full_load(r, o) ==
    IF Full_cancelled(r)
    THEN /\ lastAnswer' = "discarded"
         /\ UNCHANGED <<rates, ratesBase, loading, error>>
    ELSE /\ lastAnswer' = AnswerKind(o)
         /\ loading' = FALSE
         /\ IF o.kind \in {"ok", "ok_norates"}
            THEN /\ rates' = o.rates
                 /\ ratesBase' = IF o.kind = "ok" THEN r.base ELSE NoBase
                 /\ UNCHANGED error
            ELSE /\ error' = Full_ErrorMessage
                 /\ rates' = NullRates
                 /\ ratesBase' = NoBase

\* the fallback object of fetchRates' catch
Section_fallback(base) ==
    LET kept == SelectSeq(ROWS, LAMBDA code : code # base
                                              /\ ~Nullish(crossRate(base, code)))
    IN  MapOf([k \in 1..Len(kept) |-> Entry(kept[k], crossRate(base, kept[k]))])

\* CurrencyChartsSection.fetchRates after its awaits, for request r ending as o
Section_fetchRates(r, o) ==
    IF Section_cancelled(r)
    THEN /\ lastAnswer' = "discarded"
         /\ UNCHANGED <<rates, ratesBase, loading, error>>
    ELSE /\ lastAnswer' = AnswerKind(o)
         /\ loading' = FALSE
         /\ ratesBase' = r.base
         /\ IF o.kind \in {"ok", "ok_norates"}
            THEN /\ rates' = IF o.kind = "ok" THEN o.rates ELSE EmptyMap
                 /\ UNCHANGED error
            ELSE /\ error' = Section_ErrorMessage
                 /\ rates' = Section_fallback(r.base)

\* the fetch of request r settles
Respond(r, o) ==
    /\ r \in requests
    /\ o \in Outcomes(component, r.base)
    /\ requests' = requests \ {r}
    /\ IF component = "full" THEN Full_load(r, o) ELSE Section_fetchRates(r, o)
    /\ UNCHANGED <<component, mounted, fromCurrency, toCurrency, range, inverse,
                   issued>>
    /\ UNCHANGED outsideCharts

\* the component is unmounted: the effect's cleanup runs
Unmount ==
    /\ mounted
    /\ mounted' = FALSE
    /\ requests' = Cleanup(requests)
    /\ UNCHANGED <<component, fromCurrency, toCurrency, range, inverse, rates,
                   loading, error, issued, ratesBase, lastAnswer>>
    /\ UNCHANGED outsideCharts

Next ==
    \/ \E code \in SelectableCodes : SetFromCurrency(code)
    \/ \E code \in SelectableCodes : SetToCurrency(code)
    \/ handleSwapPair
    \/ ToggleInverse
    \/ \E key \in RangeKeys : SetRange(key)
    \/ \E r \in requests :
         \E o \in Outcomes(component, r.base) : Respond(r, o)
    \/ Unmount

Spec == Init /\ [][Next]_vars

\* the parent may also hand the component an empty currency code
NextAnyProps ==
    \/ Next
    \/ SetFromCurrency("")
    \/ SetToCurrency("")

SpecAnyProps == Init /\ [][NextAnyProps]_vars

(***************************************************************************)
(* CurrencyDropdown and ProfilePage: the lookups started at mount.         *)
(***************************************************************************)
\* both instances after mount: the effects have run up to their awaits;
\* navigator.geolocation may be missing
InitAsync ==
    /\ ChartsIdle
    /\ ConverterIdle
    /\ TrendIdle
    /\ AlertsIdle
    /\ SessionIdle
    /\ dd_mounted = TRUE
    /\ currencies = [codes |-> FALLBACK_CURRENCIES, flags |-> FALSE]
    /\ dd_loading = TRUE
    /\ apiError = NoError
    /\ dd_request = PendingFetch
    /\ prof_mounted = TRUE
    /\ \/ /\ currentLocation = Text("Detecting location...")
          /\ geo = [pc |-> "position", lat |-> 0, lon |-> 0]
       \/ /\ currentLocation = Text("Location not available")
          /\ geo = [pc |-> "done", lat |-> 0, lon |-> 0]
    /\ fxRates = FX_FALLBACK
    /\ fxError = NoError
    /\ fx_request = PendingFetch

\* the staleness check of fetchCurrencies: the closure's flag
Dropdown_cancelled == dd_request.cancelled

\* CurrencyDropdown.fetchCurrencies after its awaits, ending as o
Dropdown_fetchCurrencies(o) ==
    /\ dd_request.status = "pending"
    /\ IF Dropdown_cancelled
       THEN /\ dd_request' = [dd_request EXCEPT !.status = "discarded"]
            /\ UNCHANGED <<currencies, dd_loading, apiError>>
       ELSE /\ dd_request' = [dd_request EXCEPT !.status = "applied"]
            /\ dd_loading' = FALSE
            /\ IF o.kind = "ok"
               THEN /\ currencies' = [codes |-> SortCodes(o.codes), flags |-> TRUE]
                    /\ UNCHANGED apiError
               ELSE /\ apiError' = Dropdown_ErrorMessage
                    /\ currencies' = [codes |-> FALLBACK_CURRENCIES, flags |-> TRUE]
    /\ UNCHANGED <<dd_mounted, prof_mounted, currentLocation, geo, fxRates,
                   fxError, fx_request>>
    /\ UNCHANGED outsideAsync

\* the CurrencyDropdown is unmounted: the effect's cleanup runs
Dropdown_Unmount ==
    /\ dd_mounted
    /\ dd_mounted' = FALSE
    /\ dd_request' = [dd_request EXCEPT !.cancelled = TRUE]
    /\ UNCHANGED <<currencies, dd_loading, apiError, prof_mounted,
                   currentLocation, geo, fxRates, fxError, fx_request>>
    /\ UNCHANGED outsideAsync

\* the staleness check of the daily-FX fetchRates: the closure's flag
Profile_cancelled == fx_request.cancelled

\* typeof x === "number" ? x : fallback
NumberOr(x, fallback) == IF x # NoValue THEN x ELSE fallback

\* ProfilePage.fetchRates after its awaits, ending as o
Profile_fetchRates(o) ==
    /\ fx_request.status = "pending"
    /\ IF Profile_cancelled
       THEN /\ fx_request' = [fx_request EXCEPT !.status = "discarded"]
            /\ UNCHANGED <<fxRates, fxError>>
       ELSE /\ fx_request' = [fx_request EXCEPT !.status = "applied"]
            /\ IF o.kind = "ok"
               THEN /\ fxRates' = [usdInr |-> NumberOr(o.inr, FX_FALLBACK.usdInr),
                                   eurUsd |-> NumberOr(o.usd, FX_FALLBACK.eurUsd),
                                   usdAed |-> NumberOr(o.aed, FX_FALLBACK.usdAed),
                                   asOfDate |-> o.date]
                    /\ UNCHANGED fxError
               ELSE /\ fxError' = Profile_FxErrorMessage
                    /\ UNCHANGED fxRates
    /\ UNCHANGED <<dd_mounted, currencies, dd_loading, apiError, dd_request,
                   prof_mounted, currentLocation, geo>>
    /\ UNCHANGED outsideAsync

\* the callbacks of navigator.geolocation.getCurrentPosition, ending as o
Profile_getCurrentPosition(o) ==
    /\ geo.pc = "position"
    /\ IF o.kind = "position"
       THEN /\ geo' = [pc |-> "reverse", lat |-> o.lat, lon |-> o.lon]
            /\ UNCHANGED currentLocation
       ELSE /\ geo' = [geo EXCEPT !.pc = "done"]
            /\ currentLocation' =
                 IF o.kind = "denied" THEN Text("Location access denied")
                 ELSE Text("Could not detect location")
    /\ UNCHANGED <<dd_mounted, currencies, dd_loading, apiError, dd_request,
                   prof_mounted, fxRates, fxError, fx_request>>
    /\ UNCHANGED outsideAsync

\* the reverse-geocoding fetch of the success callback, ending as o
Profile_reverseGeocode(o) ==
    /\ geo.pc = "reverse"
    /\ geo' = [geo EXCEPT !.pc = "done"]
    /\ currentLocation' =
         IF o.kind = "ok" THEN LocationOf(o.address) ELSE LatLon(geo.lat, geo.lon)
    /\ UNCHANGED <<dd_mounted, currencies, dd_loading, apiError, dd_request,
                   prof_mounted, fxRates, fxError, fx_request>>
    /\ UNCHANGED outsideAsync

\* the ProfilePage is unmounted: the cleanup of the daily-FX effect runs
\* (the geolocation effect returns no cleanup)
Profile_Unmount ==
    /\ prof_mounted
    /\ prof_mounted' = FALSE
    /\ fx_request' = [fx_request EXCEPT !.cancelled = TRUE]
    /\ UNCHANGED <<dd_mounted, currencies, dd_loading, apiError, dd_request,
                   currentLocation, geo, fxRates, fxError>>
    /\ UNCHANGED outsideAsync

NextAsync ==
    \/ \E o \in Dropdown_Outcomes : Dropdown_fetchCurrencies(o)
    \/ Dropdown_Unmount
    \/ \E o \in Fx_Outcomes : Profile_fetchRates(o)
    \/ \E o \in Position_Outcomes : Profile_getCurrentPosition(o)
    \/ \E o \in Reverse_Outcomes : Profile_reverseGeocode(o)
    \/ Profile_Unmount

\* the chart components, or a CurrencyDropdown next to a ProfilePage
InitPages == Init \/ InitAsync

NextPages == Next \/ NextAsync

SpecPages == InitPages /\ [][NextPages]_vars

(***************************************************************************)
(* CurrencyConverterSection: the live rate of the selected pair.           *)
(***************************************************************************)
\* in hundredths
Conv_SAMPLE_RATES ==
    MapOf(<<Entry("USD", 100), Entry("EUR", 92), Entry("GBP", 78),
            Entry("INR", 8310), Entry("JPY", 15120), Entry("AUD", 152),
            Entry("CAD", 137)>>)

\* (1 / fromRate) * toRate, in ten-thousandths; null when a sample is missing
computeFallbackCrossRate(from, to) ==
    LET fromRate == Get(Conv_SAMPLE_RATES, from)
        toRate == Get(Conv_SAMPLE_RATES, to)
    IN  IF Falsy(fromRate) \/ Falsy(toRate) THEN NoValue
        ELSE (toRate * 10000) \div fromRate

Conv_ErrorMessage == "Using sample rate (live feed unavailable)."

\* how a request for the pair ends: a body whose rates hold the quote (the
\* service's rate, or 0), a body whose rates lack it, a body without the
\* rates field, a non-success status, a rejected fetch
Conv_Outcomes(from, to) ==
    {[kind |-> "ok", rates |-> MapOf(<<Entry(to, ApiRate(from, to))>>)],
     [kind |-> "ok", rates |-> MapOf(<<Entry(to, 0)>>)],
     [kind |-> "ok", rates |-> EmptyMap]}
    \cup {[kind |-> k, rates |-> UndefinedRates] :
            k \in {"ok_norates", "http_error", "network_error"}}

\* the crossRate useMemo: the rate on display
Conv_crossRate ==
    IF ~Nullish(liveRate) THEN liveRate
    ELSE computeFallbackCrossRate(conv_fromCurrency, conv_toCurrency)

Conv_Request(id, from, to) ==
    [id |-> id, from |-> from, to |-> to, cancelled |-> FALSE]

\* the effect's cleanup: cancelled = true in the last run's closure
Conv_Cleanup(reqs) ==
    {IF r.id = conv_issued THEN [r EXCEPT !.cancelled = TRUE] ELSE r : r \in reqs}

\* the effect up to its await, for the pair nf, nt
Conv_effect(nf, nt) ==
    IF nf = nt
    THEN /\ conv_requests' = Conv_Cleanup(conv_requests)
         /\ liveRate' = 10000
         /\ rateLoading' = FALSE
         /\ rateError' = NoError
         /\ UNCHANGED conv_issued
    ELSE /\ conv_requests' = Conv_Cleanup(conv_requests)
                                \cup {Conv_Request(conv_issued + 1, nf, nt)}
         /\ conv_issued' = conv_issued + 1
         /\ rateLoading' = TRUE
         /\ rateError' = NoError
         /\ UNCHANGED liveRate

\* a render with a new pair: the effect depends on [fromCurrency, toCurrency]
Conv_Rerender(nf, nt) ==
    /\ conv_mounted
    /\ <<nf, nt>> # <<conv_fromCurrency, conv_toCurrency>>
    /\ nf # nt => conv_issued < MaxRequests
    /\ conv_fromCurrency' = nf
    /\ conv_toCurrency' = nt
    /\ Conv_effect(nf, nt)
    /\ UNCHANGED <<conv_mounted, conv_lastAnswer>>
    /\ UNCHANGED outsideConverter

\* the converter after mount: the effect has run up to its await
InitConverter ==
    /\ ChartsIdle
    /\ AsyncIdle
    /\ TrendIdle
    /\ AlertsIdle
    /\ SessionIdle
    /\ conv_mounted = TRUE
    /\ conv_fromCurrency = "USD"
    /\ conv_toCurrency = "INR"
    /\ liveRate = NoValue
    /\ rateLoading = TRUE
    /\ rateError = NoError
    /\ conv_requests = {Conv_Request(1, "USD", "INR")}
    /\ conv_issued = 1
    /\ conv_lastAnswer = "none"

\* the From dropdown
Conv_SetFromCurrency(code) == Conv_Rerender(code, conv_toCurrency)

\* the To dropdown
Conv_SetToCurrency(code) == Conv_Rerender(conv_fromCurrency, code)

\* the swap button
Conv_Swap == Conv_Rerender(conv_toCurrency, conv_fromCurrency)

\* Conv_cancelled with a flag that is never set
Conv_cancelled_Never(r) == FALSE

\* the staleness check of fetchRate: the closure's flag
Conv_cancelled(r) == r.cancelled

\* fetchRate after its awaits, for request r ending as o
Conv_fetchRate(r, o) ==
    LET rate == Get(o.rates, r.to)
        thrown == o.kind \in {"http_error", "network_error"} \/ Nullish(rate)
    IN  /\ r \in conv_requests
        /\ o \in Conv_Outcomes(r.from, r.to)
        /\ conv_requests' = conv_requests \ {r}
        /\ IF Conv_cancelled(r)
           THEN /\ conv_lastAnswer' = "discarded"
                /\ UNCHANGED <<liveRate, rateLoading, rateError>>
           ELSE /\ conv_lastAnswer' = AnswerKind(o)
                /\ rateLoading' = FALSE
                /\ IF thrown
                   THEN /\ rateError' = Conv_ErrorMessage
                        /\ liveRate' = NoValue
                   ELSE /\ liveRate' = rate
                        /\ UNCHANGED rateError
        /\ UNCHANGED <<conv_mounted, conv_fromCurrency, conv_toCurrency,
                       conv_issued>>
        /\ UNCHANGED outsideConverter

\* the component is unmounted: the effect's cleanup runs
Conv_Unmount ==
    /\ conv_mounted
    /\ conv_mounted' = FALSE
    /\ conv_requests' = Conv_Cleanup(conv_requests)
    /\ UNCHANGED <<conv_fromCurrency, conv_toCurrency, liveRate, rateLoading,
                   rateError, conv_issued, conv_lastAnswer>>
    /\ UNCHANGED outsideConverter

NextConverter ==
    \/ \E code \in SelectableCodes : Conv_SetFromCurrency(code)
    \/ \E code \in SelectableCodes : Conv_SetToCurrency(code)
    \/ Conv_Swap
    \/ \E r \in conv_requests :
         \E o \in Conv_Outcomes(r.from, r.to) : Conv_fetchRate(r, o)
    \/ Conv_Unmount

SpecConverter == InitConverter /\ [][NextConverter]_vars

\* a chart component, or a converter
InitRates == Init \/ InitConverter

NextRates == Next \/ NextConverter

SpecRates == InitRates /\ [][NextRates]_vars

(***************************************************************************)
(* makeTrend called on its own, and called by the renders of a chart       *)
(* component.  A call runs to its end before anything else happens.        *)
(***************************************************************************)
\* the seeds of the calls made on their own: -MaxSeed .. MaxSeed
MaxSeed == 30

\* the rows whose calls are followed in a render: indices 0 .. MaxRenderIdx
MaxRenderIdx == 2

\* makeTrend of the component site
Site_makeTrend(site, rangeKey, seed) ==
    IF site = "full" THEN Full_makeTrend(rangeKey, seed)
    ELSE Section_makeTrend(rangeKey, seed)

\* seed of the row at index idx: idx + (inverse ? 20 : 0), idx + (inverse ? 10 : 0)
Site_rowSeed(site, idx, inv) ==
    idx + (IF inv THEN (IF site = "full" THEN 20 ELSE 10) ELSE 0)

\* the arguments are chosen, makeTrend has not run yet
InitTrend ==
    /\ ChartsIdle
    /\ AsyncIdle
    /\ ConverterIdle
    /\ AlertsIdle
    /\ SessionIdle
    /\ trend_first = <<>>
    /\ trend_call \in [site : {"full", "section"}, rangeKey : RangeKeys,
                        seed : (-MaxSeed)..MaxSeed, values : {<<>>}]

\* makeTrend(range, seed) runs
MakeTrend ==
    /\ trend_call.site # "none"
    /\ trend_call.values = <<>>
    /\ trend_call' = [trend_call EXCEPT
                        !.values = Site_makeTrend(trend_call.site,
                                                  trend_call.rangeKey,
                                                  trend_call.seed)]
    /\ UNCHANGED trend_first
    /\ UNCHANGED outsideTrend

SpecTrend == InitTrend /\ [][MakeTrend]_vars

\* a chart component after mount; the calls of its first render are kept
InitRender ==
    /\ AsyncIdle
    /\ ConverterIdle
    /\ AlertsIdle
    /\ SessionIdle
    /\ ChartsMounted
    /\ trend_call = NoCall
    /\ trend_first =
          [rangeKey \in RangeKeys |->
              [seed \in {Site_rowSeed(component, idx, inv) :
                            idx \in 0..MaxRenderIdx, inv \in BOOLEAN} |->
                  Site_makeTrend(component, rangeKey, seed)]]

\* Render_makeTrend whose seed depends on how many requests were issued
Render_makeTrend_ReadsState(idx) ==
    /\ mounted
    /\ trend_call = NoCall
    /\ LET seed == Site_rowSeed(component, idx, inverse)
       IN  trend_call' = [site |-> component, rangeKey |-> range, seed |-> seed,
                          values |-> Site_makeTrend(component, range,
                                                    seed + issued - 1)]
    /\ UNCHANGED trend_first
    /\ UNCHANGED outsideTrend

\* the rows useMemo calls makeTrend(range, idx + offset) for the row at idx
Render_makeTrend(idx) ==
    /\ mounted
    /\ trend_call = NoCall
    /\ LET seed == Site_rowSeed(component, idx, inverse)
       IN  trend_call' = [site |-> component, rangeKey |-> range, seed |-> seed,
                          values |-> Site_makeTrend(component, range, seed)]
    /\ UNCHANGED trend_first
    /\ UNCHANGED outsideTrend

\* the call returns
Render_return ==
    /\ trend_call # NoCall
    /\ trend_call' = NoCall
    /\ UNCHANGED trend_first
    /\ UNCHANGED outsideTrend

\* the steps of the chart component between calls, and the calls
NextRender ==
    \/ \E code \in SelectableCodes : trend_call = NoCall /\ SetFromCurrency(code)
    \/ \E code \in SelectableCodes : trend_call = NoCall /\ SetToCurrency(code)
    \/ trend_call = NoCall /\ handleSwapPair
    \/ trend_call = NoCall /\ ToggleInverse
    \/ \E key \in RangeKeys : trend_call = NoCall /\ SetRange(key)
    \/ \E r \in requests :
         \E o \in Outcomes(component, r.base) :
            trend_call = NoCall /\ Respond(r, o)
    \/ trend_call = NoCall /\ Unmount
    \/ \E idx \in 0..MaxRenderIdx : Render_makeTrend(idx)
    \/ Render_return

SpecRender == InitRender /\ [][NextRender]_vars

(***************************************************************************)
(* GetAlertsSection: the form and its handlers.                            *)
(***************************************************************************)
\* the alerts one instance saves: at most MaxAlerts
MaxAlerts == 2

\* the currencies of the two dropdowns
AlertCodes == {"USD", "INR"}

\* texts typed into the target-rate input: "", "0", "abc", "Infinity"
RateTexts ==
    {<<>>, <<"0">>, <<"a", "b", "c">>, <<"I", "n", "f", "i", "n", "i", "t", "y">>}

\* two of the quick presets 82.5, 83.0, 83.5: the buttons pressed
Presets == {825000, 830000}

\* texts typed into the email input: " ", "a.b", "a@b", " a@b.c "
EmailTexts ==
    {<<" ">>, <<"a", ".", "b">>, <<"a", "@", "b">>,
     <<" ", "a", "@", "b", ".", "c", " ">>}

\* Date.now() at a submit
ClockReadings == {1}

\* the instance is constructed, its mount effect has not run; the parent
\* passes a pair, or no From currency
InitAlerts ==
    /\ ChartsIdle
    /\ AsyncIdle
    /\ ConverterIdle
    /\ TrendIdle
    /\ SessionIdle
    /\ al_phase = "constructed"
    /\ al_fromCurrency \in {"", "USD"}
    /\ al_toCurrency = "INR"
    /\ targetRate = <<>>
    /\ email = <<>>
    /\ busy = FALSE
    /\ saved = FALSE
    /\ al_error = NoError
    /\ existingAlerts = <<>>
    /\ storage \in StoredEntries
    /\ al_loaded = <<>>

\* the mount effect: setExistingAlerts(loadAlerts()); an exception that
\* leaves loadAlerts takes the page down
Alerts_Mount ==
    /\ al_phase = "constructed"
    /\ LET loaded == loadAlerts(storage)
       IN  IF loaded.threw
           THEN /\ al_phase' = "crashed"
                /\ UNCHANGED <<existingAlerts, al_loaded>>
           ELSE /\ al_phase' = "mounted"
                /\ existingAlerts' = loaded.value
                /\ al_loaded' = loaded.value
    /\ UNCHANGED <<al_fromCurrency, al_toCurrency, targetRate, email, busy, saved,
                   al_error, storage>>
    /\ UNCHANGED outsideAlerts

\* a handler that changes the pair or an input
Alerts_Edit(nf, nt, nr, ne) ==
    /\ al_phase = "mounted"
    /\ al_fromCurrency' = nf
    /\ al_toCurrency' = nt
    /\ targetRate' = nr
    /\ email' = ne
    /\ UNCHANGED <<al_phase, busy, saved, al_error, existingAlerts, storage,
                   al_loaded>>
    /\ UNCHANGED outsideAlerts

\* the From dropdown
Alerts_SetFromCurrency(code) ==
    Alerts_Edit(code, al_toCurrency, targetRate, email)

\* the To dropdown
Alerts_SetToCurrency(code) ==
    Alerts_Edit(al_fromCurrency, code, targetRate, email)

Alerts_handleSwap ==
    Alerts_Edit(al_toCurrency, al_fromCurrency, targetRate, email)

\* the target-rate input
SetTargetRate(text) ==
    Alerts_Edit(al_fromCurrency, al_toCurrency, text, email)

handleQuickPreset(preset) ==
    Alerts_Edit(al_fromCurrency, al_toCurrency, ToFixed4(preset), email)

\* the email input
SetEmail(text) ==
    Alerts_Edit(al_fromCurrency, al_toCurrency, targetRate, text)

\* handleSubmit that saves without validating
handleSubmit_NoValidation(now) ==
    LET alert == Alert(al_fromCurrency, al_toCurrency, Number(targetRate),
                       Trim(email), now)
        updated == UpdatedList(alert, existingAlerts)
    IN  /\ al_phase = "mounted"
        /\ Len(existingAlerts) - Len(al_loaded) < MaxAlerts
        /\ al_error' = NoError
        /\ existingAlerts' = updated
        /\ storage' = saveAlerts(storage, updated)
        /\ saved' = TRUE
        /\ UNCHANGED <<al_phase, al_fromCurrency, al_toCurrency, targetRate,
                       email, busy, al_loaded>>
        /\ UNCHANGED outsideAlerts

\* handleSubmit at clock reading now
handleSubmit(now) ==
    LET message == validateForm(al_fromCurrency, al_toCurrency, targetRate, email)
        alert == Alert(al_fromCurrency, al_toCurrency, Number(targetRate),
                       Trim(email), now)
        updated == UpdatedList(alert, existingAlerts)
    IN  /\ al_phase = "mounted"
        /\ IF message # NoError
           THEN /\ al_error' = message
                /\ UNCHANGED <<existingAlerts, storage, saved>>
           ELSE /\ Len(existingAlerts) - Len(al_loaded) < MaxAlerts
                /\ al_error' = NoError
                /\ existingAlerts' = updated
                /\ storage' = saveAlerts(storage, updated)
                /\ saved' = TRUE
        /\ UNCHANGED <<al_phase, al_fromCurrency, al_toCurrency, targetRate,
                       email, busy, al_loaded>>
        /\ UNCHANGED outsideAlerts

NextAlerts ==
    \/ Alerts_Mount
    \/ \E code \in AlertCodes : Alerts_SetFromCurrency(code)
    \/ \E code \in AlertCodes : Alerts_SetToCurrency(code)
    \/ Alerts_handleSwap
    \/ \E text \in RateTexts : SetTargetRate(text)
    \/ \E preset \in Presets : handleQuickPreset(preset)
    \/ \E text \in EmailTexts : SetEmail(text)
    \/ \E now \in ClockReadings : handleSubmit(now)

SpecAlerts == InitAlerts /\ [][NextAlerts]_vars

(***************************************************************************)
(* App: the auth-state listener, the routing and the logout.  The theme    *)
(* and the avatar, which no handler below reads, are left out.             *)
(***************************************************************************)
\* the most entries the login history gets
MaxLogins == 3

\* "unknown@example.com"
UnknownEmail ==
    <<"u", "n", "k", "n", "o", "w", "n", "@", "e", "x", "a", "m", "p", "l", "e",
      ".", "c", "o", "m">>

\* "FX User"
FxUserName == <<"F", "X", " ", "U", "s", "e", "r">>

\* str.split("@")[0]
BeforeAt(str) ==
    LET ats == {i \in 1..Len(str) : str[i] = "@"}
    IN  IF ats = {} THEN str
        ELSE SubSeq(str, 1, (CHOOSE i \in ats : \A j \in ats : i <= j) - 1)

\* a || b for texts
TextOr(a, b) == IF a # <<>> THEN a ELSE b

\* firebaseUser = null
NoFirebaseUser == [uid |-> "null", email |-> <<>>, displayName |-> <<>>]

\* the accounts of the auth service (<<>>: the field is null): one with an
\* email only, one with a display name only, one with neither whose email
\* starts with "@"
FirebaseUsers ==
    { [uid |-> "u1", email |-> <<"a", "@", "b", ".", "c">>, displayName |-> <<>>],
      [uid |-> "u2", email |-> <<>>, displayName |-> <<" ", "Z", " ">>],
      [uid |-> "u3", email |-> <<"@", "b">>, displayName |-> <<>>] }

\* the UserProfile the listener builds for firebaseUser
ProfileOf(firebaseUser) ==
    LET safeEmail == IF firebaseUser.email = <<>> THEN UnknownEmail
                     ELSE firebaseUser.email
        fallbackName == TextOr(BeforeAt(safeEmail),
                               TextOr(firebaseUser.displayName, FxUserName))
        safeDisplayName == Trim(TextOr(firebaseUser.displayName, fallbackName))
    IN  [kind |-> "user", email |-> safeEmail, displayName |-> safeDisplayName]

ProtectedViews == {"profile", "privacy", "chartsFull"}

\* the listener's signed-out branch without lastUserIdRef.current = null
SignedOutRef_Kept(ref) == ref

\* lastUserIdRef.current after the signed-out branch
SignedOutRef(ref) == "null"

\* the onAuthStateChanged callback for firebaseUser, the clock having
\* advanced by tick since the last reading
AuthStateChanged(firebaseUser, tick) ==
    /\ view # "none"
    /\ IF firebaseUser # NoFirebaseUser
       THEN /\ user' = ProfileOf(firebaseUser)
            /\ IF lastUserIdRef # firebaseUser.uid
               THEN /\ Len(loginHistory) < MaxLogins
                    /\ lastUserIdRef' = firebaseUser.uid
                    /\ app_clock' = app_clock + tick
                    /\ loginHistory' =
                          <<[id |-> app_clock + tick, timestamp |-> app_clock + tick]>>
                          \o loginHistory
               ELSE UNCHANGED <<lastUserIdRef, app_clock, loginHistory>>
            /\ view' = IF view \in ProtectedViews THEN view ELSE "main"
       ELSE /\ user' = NullUser
            /\ lastUserIdRef' = SignedOutRef(lastUserIdRef)
            /\ view' = IF view \in ProtectedViews THEN "main" ELSE view
            /\ UNCHANGED <<app_clock, loginHistory>>
    /\ initializing' = FALSE
    /\ auth_prev' = firebaseUser.uid
    /\ UNCHANGED <<authCompleting, signingOut>>
    /\ UNCHANGED outsideApp

\* setView(next) by a handler of the page on display
App_Navigate(next) ==
    /\ view' = next
    /\ UNCHANGED <<user, loginHistory, initializing, lastUserIdRef, authCompleting,
                   signingOut, app_clock, auth_prev>>
    /\ UNCHANGED outsideApp

\* the page App renders
Rendered ==
    IF view = "none" THEN "none"
    ELSE IF initializing THEN "initializing"
    ELSE IF view \in {"login", "register", "privacy"} THEN view
    ELSE IF view = "profile" /\ user # NullUser THEN "profile"
    ELSE IF view = "chartsFull" THEN "chartsFull"
    ELSE "main"

\* onOpenProfile without the test of user
onOpenProfile_NoTest == Rendered = "main" /\ App_Navigate("profile")

\* MainPage: onOpenProfile
onOpenProfile ==
    /\ Rendered = "main"
    /\ App_Navigate(IF user # NullUser THEN "profile" ELSE "login")

\* MainPage: onOpenChartsFull
onOpenChartsFull == Rendered = "main" /\ App_Navigate("chartsFull")

\* ProfilePage's onBack and the charts page's back button
App_BackToMain == Rendered \in {"profile", "chartsFull"} /\ App_Navigate("main")

\* LoginPage: onGoToRegister
onGoToRegister == Rendered = "login" /\ App_Navigate("register")

\* RegisterPage: onBackToLogin
onBackToLogin == Rendered = "register" /\ App_Navigate("login")

\* RegisterPage: onOpenPrivacy
onOpenPrivacy == Rendered = "register" /\ App_Navigate("privacy")

\* PrivacyPolicyPage: onBack
Privacy_onBack == Rendered = "privacy" /\ App_Navigate("register")

\* LoginPage or RegisterPage starts a sign-in and awaits its answer
App_SignIn ==
    /\ Rendered \in {"login", "register"}
    /\ ~authCompleting
    /\ authCompleting' = TRUE
    /\ UNCHANGED <<view, user, loginHistory, initializing, lastUserIdRef,
                   signingOut, app_clock, auth_prev>>
    /\ UNCHANGED outsideApp

\* the sign-in ends: on success the page calls onLogin / onRegister
handleAuthCompleted(succeeded) ==
    /\ authCompleting
    /\ authCompleting' = FALSE
    /\ view' = IF succeeded THEN "main" ELSE view
    /\ UNCHANGED <<user, loginHistory, initializing, lastUserIdRef, signingOut,
                   app_clock, auth_prev>>
    /\ UNCHANGED outsideApp

\* handleLogout up to its await
handleLogout ==
    /\ Rendered = "main"
    /\ ~signingOut
    /\ signingOut' = TRUE
    /\ UNCHANGED <<view, user, loginHistory, initializing, lastUserIdRef,
                   authCompleting, app_clock, auth_prev>>
    /\ UNCHANGED outsideApp

\* handleLogout after signOut settled
handleLogout_settled(resolved) ==
    /\ signingOut
    /\ signingOut' = FALSE
    /\ IF resolved
       THEN user' = NullUser /\ view' = "main"
       ELSE UNCHANGED <<user, view>>
    /\ UNCHANGED <<loginHistory, initializing, lastUserIdRef, authCompleting,
                   app_clock, auth_prev>>
    /\ UNCHANGED outsideApp

\* App after mount: view "main", the first auth-state event still to come
InitApp ==
    /\ ChartsIdle
    /\ AsyncIdle
    /\ ConverterIdle
    /\ TrendIdle
    /\ AlertsIdle
    /\ RegisterIdle
    /\ view = "main"
    /\ user = NullUser
    /\ loginHistory = <<>>
    /\ initializing = TRUE
    /\ lastUserIdRef = "null"
    /\ authCompleting = FALSE
    /\ signingOut = FALSE
    /\ app_clock = 0
    /\ auth_prev = "none"
    /\ ProfileIdle

NextApp ==
    \/ \E firebaseUser \in FirebaseUsers \cup {NoFirebaseUser}, tick \in {0, 1} :
         AuthStateChanged(firebaseUser, tick)
    \/ onOpenProfile
    \/ onOpenChartsFull
    \/ App_BackToMain
    \/ onGoToRegister
    \/ onBackToLogin
    \/ onOpenPrivacy
    \/ Privacy_onBack
    \/ App_SignIn
    \/ \E succeeded \in BOOLEAN : handleAuthCompleted(succeeded)
    \/ handleLogout
    \/ \E resolved \in BOOLEAN : handleLogout_settled(resolved)

SpecApp == InitApp /\ [][NextApp]_vars

(***************************************************************************)
(* RegisterPage: the four steps and the final submit.                      *)
(***************************************************************************)
\* texts typed into the inputs of step 1: "a@b", "a@b.c"; "12345", "123456";
\* "123456", "123457"
Reg_Emails == {<<"a", "@", "b">>, <<"a", "@", "b", ".", "c">>}

Reg_Passwords == {<<"1", "2", "3", "4", "5">>, <<"1", "2", "3", "4", "5", "6">>}

Reg_Confirmations ==
    {<<"1", "2", "3", "4", "5", "6">>, <<"1", "2", "3", "4", "5", "7">>}

\* Math.floor(100000 + Math.random() * 900000).toString(): two of its values
GeneratedCodes ==
    {<<"1", "1", "1", "1", "1", "1">>, <<"1", "1", "1", "1", "1", "2">>}

\* what a code input hands to handleCodeChange: "", "1", "x", "12"
CodeValues == {<<>>, <<"1">>, <<"x">>, <<"1", "2">>}

Countries == {"United States", "India"}

\* texts typed into the inputs of step 4: " ", "A"; "B"
FirstNames == {<<" ">>, <<"A">>}

LastNames == {<<"B">>}

RECURSIVE JoinTexts(_)
\* parts.join("")
JoinTexts(parts) ==
    IF parts = <<>> THEN <<>> ELSE Head(parts) \o JoinTexts(Tail(parts))

\* /^\d?$/.test(value)
IsOptionalDigit(value) ==
    value = <<>> \/ (Len(value) = 1 /\ IsDigit(value[1]))

\* the message validateStep1 sets, NoError when it passes
validateStep1 ==
    IF Trim(reg_email) = <<>> THEN "Please enter your email."
    ELSE IF ~StrIncludes(reg_email, "@") \/ ~StrIncludes(reg_email, ".")
         THEN "Please enter a valid email address."
    ELSE IF password = <<>> \/ Len(password) < 6
         THEN "Password should be at least 6 characters."
    ELSE IF password # confirmPassword THEN "Passwords do not match."
    ELSE NoError

\* validateStep2 without the comparison with the generated code
validateStep2_LengthOnly ==
    LET entered == JoinTexts(codeInputs)
    IN  IF generatedCode = <<>>
        THEN "We couldn't generate a code. Please restart registration."
        ELSE IF Len(entered) # 6
             THEN "Please enter the 6-digit verification code."
        ELSE NoError

validateStep2 ==
    LET entered == JoinTexts(codeInputs)
    IN  IF generatedCode = <<>>
        THEN "We couldn't generate a code. Please restart registration."
        ELSE IF Len(entered) # 6
             THEN "Please enter the 6-digit verification code."
        ELSE IF entered # generatedCode
             THEN "That code doesn't match. Double-check the email and try again."
        ELSE NoError

validateStep3 ==
    IF country = "" THEN "Please pick your primary country."
    ELSE IF ~agreeTerms THEN "You need to agree to the terms to continue."
    ELSE NoError

validateStep4 ==
    IF Trim(firstName) = <<>> THEN "Please enter your first name."
    ELSE IF Trim(lastName) = <<>> THEN "Please enter your last name."
    ELSE NoError

\* the page is on display and has not handed over to App
Reg_Shown == reg_pc \in {"form", "create", "updateProfile"}

\* an input of step 1
Reg_EditAccount(ne, np, nc) ==
    /\ Reg_Shown
    /\ step = 1
    /\ <<ne, np, nc>> # <<reg_email, password, confirmPassword>>
    /\ reg_email' = ne
    /\ password' = np
    /\ confirmPassword' = nc
    /\ UNCHANGED <<reg_pc, step, generatedCode, codeInputs, country, agreeTerms,
                   firstName, lastName, reg_error, reg_loading>>
    /\ UNCHANGED outsideRegister

Reg_SetEmail(text) == Reg_EditAccount(text, password, confirmPassword)

Reg_SetPassword(text) == Reg_EditAccount(reg_email, text, confirmPassword)

Reg_SetConfirmPassword(text) == Reg_EditAccount(reg_email, password, text)

\* a code input of step 2 (index from 1)
handleCodeChange(index, value) ==
    /\ Reg_Shown
    /\ step = 2
    /\ codeInputs' = IF IsOptionalDigit(value)
                     THEN [codeInputs EXCEPT ![index] = value]
                     ELSE codeInputs
    /\ UNCHANGED <<reg_pc, step, reg_email, password, confirmPassword,
                   generatedCode, country, agreeTerms, firstName, lastName,
                   reg_error, reg_loading>>
    /\ UNCHANGED outsideRegister

\* the inputs of step 3
Reg_EditRegion(ncountry, nagree) ==
    /\ Reg_Shown
    /\ step = 3
    /\ <<ncountry, nagree>> # <<country, agreeTerms>>
    /\ country' = ncountry
    /\ agreeTerms' = nagree
    /\ UNCHANGED <<reg_pc, step, reg_email, password, confirmPassword,
                   generatedCode, codeInputs, firstName, lastName, reg_error,
                   reg_loading>>
    /\ UNCHANGED outsideRegister

SetCountry(name) == Reg_EditRegion(name, agreeTerms)

SetAgreeTerms(checked) == Reg_EditRegion(country, checked)

\* the inputs of step 4
Reg_EditProfile(nfirst, nlast) ==
    /\ Reg_Shown
    /\ step = 4
    /\ <<nfirst, nlast>> # <<firstName, lastName>>
    /\ firstName' = nfirst
    /\ lastName' = nlast
    /\ UNCHANGED <<reg_pc, step, reg_email, password, confirmPassword,
                   generatedCode, codeInputs, country, agreeTerms, reg_error,
                   reg_loading>>
    /\ UNCHANGED outsideRegister

SetFirstName(text) == Reg_EditProfile(text, lastName)

SetLastName(text) == Reg_EditProfile(firstName, text)

\* the Back button (shown when step > 1)
prevStep ==
    /\ Reg_Shown
    /\ step > 1
    /\ reg_error' = NoError
    /\ step' = step - 1
    /\ UNCHANGED <<reg_pc, reg_email, password, confirmPassword, generatedCode,
                   codeInputs, country, agreeTerms, firstName, lastName,
                   reg_loading>>
    /\ UNCHANGED outsideRegister

\* the Continue button (disabled while loading), code being what
\* Math.random yields
handleContinue(code) ==
    LET message == IF step = 1 THEN validateStep1
                   ELSE IF step = 2 THEN validateStep2
                   ELSE IF step = 3 THEN validateStep3
                   ELSE validateStep4
    IN  /\ Reg_Shown
        /\ ~reg_loading
        /\ reg_error' = message
        /\ IF message # NoError
           THEN UNCHANGED <<reg_pc, step, generatedCode, reg_loading>>
           ELSE IF step < 4
           THEN /\ step' = step + 1
                /\ generatedCode' = IF step = 1 THEN code ELSE generatedCode
                /\ UNCHANGED <<reg_pc, reg_loading>>
           ELSE /\ reg_loading' = TRUE
                /\ reg_pc' = "create"
                /\ UNCHANGED <<step, generatedCode>>
        /\ UNCHANGED <<reg_email, password, confirmPassword, codeInputs, country,
                       agreeTerms, firstName, lastName>>
        /\ UNCHANGED outsideRegister

\* the message handleSubmitFinal's catch sets for an error code
Reg_CatchMessage(errCode) ==
    IF errCode = "auth/email-already-in-use"
    THEN "An account with this email already exists."
    ELSE IF errCode = "auth/invalid-email"
         THEN "Please enter a valid email address."
    ELSE "We couldn't create your account. Please try again."

\* handleSubmitFinal after createUserWithEmailAndPassword settled; errCode
\* "" when it resolved
handleSubmitFinal_created(errCode) ==
    LET displayName == Trim(Trim(firstName) \o <<" ">> \o Trim(lastName))
    IN  /\ reg_pc = "create"
        /\ IF errCode # ""
           THEN /\ reg_error' = Reg_CatchMessage(errCode)
                /\ reg_loading' = FALSE
                /\ reg_pc' = "form"
           ELSE IF displayName # <<>>
           THEN /\ reg_pc' = "updateProfile"
                /\ UNCHANGED <<reg_error, reg_loading>>
           ELSE /\ reg_pc' = "done"
                /\ reg_loading' = FALSE
                /\ UNCHANGED reg_error
        /\ UNCHANGED <<step, reg_email, password, confirmPassword, generatedCode,
                       codeInputs, country, agreeTerms, firstName, lastName>>
        /\ UNCHANGED outsideRegister

\* handleSubmitFinal after updateProfile settled: onRegister hands over to App
handleSubmitFinal_updated(errCode) ==
    /\ reg_pc = "updateProfile"
    /\ reg_loading' = FALSE
    /\ IF errCode # ""
       THEN reg_error' = Reg_CatchMessage(errCode) /\ reg_pc' = "form"
       ELSE reg_pc' = "done" /\ UNCHANGED reg_error
    /\ UNCHANGED <<step, reg_email, password, confirmPassword, generatedCode,
                   codeInputs, country, agreeTerms, firstName, lastName>>
    /\ UNCHANGED outsideRegister

\* how an awaited call of the auth service ends
AuthErrorCodes ==
    {"", "auth/email-already-in-use", "auth/invalid-email", "auth/network-request-failed"}

\* RegisterPage after mount
InitRegister ==
    /\ ChartsIdle
    /\ AsyncIdle
    /\ ConverterIdle
    /\ TrendIdle
    /\ AlertsIdle
    /\ AppIdle
    /\ ProfileIdle
    /\ reg_pc = "form"
    /\ step = 1
    /\ reg_email = <<>>
    /\ password = <<>>
    /\ confirmPassword = <<>>
    /\ generatedCode = <<>>
    /\ codeInputs = <<<<>>, <<>>, <<>>, <<>>, <<>>, <<>>>>
    /\ country = "United States"
    /\ agreeTerms = FALSE
    /\ firstName = <<>>
    /\ lastName = <<>>
    /\ reg_error = NoError
    /\ reg_loading = FALSE

NextRegister ==
    \/ \E text \in Reg_Emails : Reg_SetEmail(text)
    \/ \E text \in Reg_Passwords : Reg_SetPassword(text)
    \/ \E text \in Reg_Confirmations : Reg_SetConfirmPassword(text)
    \/ \E index \in 1..6, value \in CodeValues : handleCodeChange(index, value)
    \/ \E name \in Countries : SetCountry(name)
    \/ \E checked \in BOOLEAN : SetAgreeTerms(checked)
    \/ \E text \in FirstNames : SetFirstName(text)
    \/ \E text \in LastNames : SetLastName(text)
    \/ prevStep
    \/ \E code \in GeneratedCodes : handleContinue(code)
    \/ \E errCode \in AuthErrorCodes : handleSubmitFinal_created(errCode)
    \/ \E errCode \in AuthErrorCodes : handleSubmitFinal_updated(errCode)

SpecRegister == InitRegister /\ [][NextRegister]_vars

(***************************************************************************)
(* ProfilePage: the edit modal and handleSaveProfile, with App's           *)
(* handleUpdateProfile, handleUpdateEmail and handleUpdatePassword.        *)
(***************************************************************************)
Profile_SaveErrorMessage == "Could not update profile. Please try again."

\* texts typed into the modal (a field is emptied by opening the modal
\* again): "N ", "m@x.y "; "hi"; "t"; "o"; "12345", "123456"
EditNames == {<<"N", " ">>}

EditEmails == {<<"m", "@", "x", ".", "y", " ">>}

EditAbouts == {<<"h", "i">>}

EditLinks == {<<"t">>}

OldPasswords == {<<"o">>}

NewPasswords == {<<"1", "2", "3", "4", "5">>, <<"1", "2", "3", "4", "5", "6">>}

ConfirmPasswords == {<<"1", "2", "3", "4", "5">>, <<"1", "2", "3", "4", "5", "6">>}

\* about.replace(/^"|"$/g, "")
StripQuotes(str) ==
    LET front == IF str # <<>> /\ Head(str) = "\"" THEN Tail(str) ELSE str
    IN  IF front # <<>> /\ front[Len(front)] = "\""
        THEN SubSeq(front, 1, Len(front) - 1)
        ELSE front

\* `"${editAbout}"`
Quoted(str) == <<"\"">> \o str \o <<"\"">>

\* App.handleUpdateProfile({displayName: name})
handleUpdateProfile(prev, name) ==
    IF prev # NullUser THEN [prev EXCEPT !.displayName = name] ELSE prev

\* the setUser of App.handleUpdateEmail once updateEmail resolved
handleUpdateEmail(prev, newEmail) ==
    IF prev # NullUser THEN [prev EXCEPT !.email = newEmail] ELSE prev

openEditModal ==
    /\ view = "profile"
    /\ ~isEditOpen
    /\ editName' = prof_displayName
    /\ editEmail' = prof_email
    /\ editAbout' = StripQuotes(about)
    /\ editTwitter' = socials.twitter
    /\ editLinkedin' = socials.linkedin
    /\ editInstagram' = socials.instagram
    /\ oldPassword' = <<>>
    /\ newPassword' = <<>>
    /\ edit_confirmPassword' = <<>>
    /\ socialError' = NoError
    /\ passwordError' = NoError
    /\ prof_message' = NoError
    /\ prof_error' = NoError
    /\ isEditOpen' = TRUE
    /\ save_before' = ProfileFields
    /\ UNCHANGED <<prof_displayName, prof_email, about, socials, savingProfile,
                   save_call>>
    /\ UNCHANGED <<appVars, outsideProfile>>

closeEditModal ==
    /\ isEditOpen
    /\ isEditOpen' = IF ~savingProfile THEN FALSE ELSE isEditOpen
    /\ UNCHANGED <<prof_displayName, prof_email, about, socials, editVars,
                   socialError, passwordError, prof_message, prof_error,
                   savingProfile, save_call, save_before>>
    /\ UNCHANGED <<appVars, outsideProfile>>

\* an input of the modal: the profile texts and links
Edit_Profile(nname, nemail, nabout, ntwitter, nlinkedin, ninstagram) ==
    /\ isEditOpen
    /\ <<nname, nemail, nabout, ntwitter, nlinkedin, ninstagram>>
          # <<editName, editEmail, editAbout, editTwitter, editLinkedin,
               editInstagram>>
    /\ editName' = nname
    /\ editEmail' = nemail
    /\ editAbout' = nabout
    /\ editTwitter' = ntwitter
    /\ editLinkedin' = nlinkedin
    /\ editInstagram' = ninstagram
    /\ UNCHANGED <<prof_displayName, prof_email, about, socials, isEditOpen,
                   oldPassword, newPassword, edit_confirmPassword, socialError,
                   passwordError, prof_message, prof_error, savingProfile,
                   save_call, save_before>>
    /\ UNCHANGED <<appVars, outsideProfile>>

SetEditName(text) ==
    Edit_Profile(text, editEmail, editAbout, editTwitter, editLinkedin,
                 editInstagram)

SetEditEmail(text) ==
    Edit_Profile(editName, text, editAbout, editTwitter, editLinkedin,
                 editInstagram)

SetEditAbout(text) ==
    Edit_Profile(editName, editEmail, text, editTwitter, editLinkedin,
                 editInstagram)

SetEditTwitter(text) ==
    Edit_Profile(editName, editEmail, editAbout, text, editLinkedin,
                 editInstagram)

SetEditLinkedin(text) ==
    Edit_Profile(editName, editEmail, editAbout, editTwitter, text,
                 editInstagram)

SetEditInstagram(text) ==
    Edit_Profile(editName, editEmail, editAbout, editTwitter, editLinkedin, text)

\* an input of the modal: the passwords
Edit_Passwords(nold, nnew, nconfirm) ==
    /\ isEditOpen
    /\ <<nold, nnew, nconfirm>> # <<oldPassword, newPassword, edit_confirmPassword>>
    /\ oldPassword' = nold
    /\ newPassword' = nnew
    /\ edit_confirmPassword' = nconfirm
    /\ UNCHANGED <<prof_displayName, prof_email, about, socials, isEditOpen,
                   editName, editEmail, editAbout, editTwitter, editLinkedin,
                   editInstagram, socialError, passwordError, prof_message,
                   prof_error, savingProfile, save_call, save_before>>
    /\ UNCHANGED <<appVars, outsideProfile>>

SetOldPassword(text) == Edit_Passwords(text, newPassword, edit_confirmPassword)

SetNewPassword(text) == Edit_Passwords(oldPassword, text, edit_confirmPassword)

Profile_SetConfirmPassword(text) == Edit_Passwords(oldPassword, newPassword, text)

\* the end of handleSaveProfile's try block, and its finally
Save_finish ==
    /\ prof_message' = "Profile updated."
    /\ isEditOpen' = FALSE
    /\ savingProfile' = FALSE
    /\ save_call' = NoSave

\* handleSaveProfile's catch, and its finally
Save_catch ==
    /\ prof_error' = Profile_SaveErrorMessage
    /\ savingProfile' = FALSE
    /\ save_call' = NoSave

\* handleSaveProfile (the Save button, disabled while saving) up to its
\* first await
handleSaveProfile ==
    LET trimmedName == Trim(editName)
        trimmedEmail == Trim(editEmail)
        twitterVal == Trim(editTwitter)
        linkedinVal == Trim(editLinkedin)
        instagramVal == Trim(editInstagram)
        socialValues == SelectSeq(<<twitterVal, linkedinVal, instagramVal>>,
                                  LAMBDA v : v # <<>>)
        isPasswordChanging == oldPassword # <<>> \/ newPassword # <<>>
                              \/ edit_confirmPassword # <<>>
        passwordMessage ==
            IF ~isPasswordChanging THEN NoError
            ELSE IF oldPassword = <<>> \/ newPassword = <<>>
                    \/ edit_confirmPassword = <<>>
                 THEN "Please fill old, new, and confirm password to change it."
            ELSE IF newPassword # edit_confirmPassword
                 THEN "New password and confirmation do not match."
            ELSE IF Len(newPassword) < 6
                 THEN "New password should be at least 6 characters."
            ELSE NoError
        nameChanges == trimmedName # <<>> /\ trimmedName # prof_displayName
        emailChanges == trimmedEmail # <<>> /\ trimmedEmail # prof_email
    IN  /\ isEditOpen
        /\ ~savingProfile
        /\ IF Len(socialValues) > 2
           THEN /\ socialError' = "You can only save up to two social links."
                /\ passwordError' = NoError
                /\ prof_message' = NoError
                /\ prof_error' = NoError
                /\ UNCHANGED <<prof_displayName, about, socials, user, isEditOpen,
                               savingProfile, save_call>>
           ELSE IF passwordMessage # NoError
           THEN /\ socialError' = NoError
                /\ passwordError' = passwordMessage
                /\ prof_message' = NoError
                /\ prof_error' = NoError
                /\ UNCHANGED <<prof_displayName, about, socials, user, isEditOpen,
                               savingProfile, save_call>>
           ELSE /\ socialError' = NoError
                /\ passwordError' = NoError
                /\ prof_error' = NoError
                /\ IF nameChanges
                   THEN /\ user' = handleUpdateProfile(user, trimmedName)
                        /\ prof_displayName' = trimmedName
                   ELSE UNCHANGED <<user, prof_displayName>>
                /\ about' = IF editAbout # <<>> THEN Quoted(editAbout) ELSE about
                /\ socials' = [twitter |-> twitterVal, linkedin |-> linkedinVal,
                               instagram |-> instagramVal]
                /\ IF emailChanges \/ isPasswordChanging
                   THEN /\ savingProfile' = TRUE
                        /\ save_call' =
                              [at |-> IF emailChanges THEN "onUpdateEmail"
                                      ELSE "onUpdatePassword",
                               trimmedEmail |-> trimmedEmail,
                               isPasswordChanging |-> isPasswordChanging,
                               newPassword |-> newPassword]
                        /\ prof_message' = NoError
                        /\ UNCHANGED isEditOpen
                   ELSE Save_finish
        /\ UNCHANGED <<prof_email, editVars>>
        /\ save_before' = IF savingProfile' THEN ProfileFields ELSE ProfileFields'
        /\ UNCHANGED <<view, loginHistory, initializing, lastUserIdRef,
                       authCompleting, signingOut, app_clock, auth_prev>>
        /\ UNCHANGED outsideProfile

\* handleSaveProfile after onUpdateEmail settled (rejected: updateEmail
\* failed, or App found no authenticated user)
handleSaveProfile_emailSettled(resolved) ==
    /\ save_call.at = "onUpdateEmail"
    /\ IF resolved
       THEN /\ user' = handleUpdateEmail(user, save_call.trimmedEmail)
            /\ prof_email' = save_call.trimmedEmail
            /\ IF save_call.isPasswordChanging
               THEN /\ save_call' = [save_call EXCEPT !.at = "onUpdatePassword"]
                    /\ UNCHANGED <<prof_message, isEditOpen, savingProfile>>
               ELSE Save_finish
            /\ UNCHANGED prof_error
       ELSE /\ Save_catch
            /\ UNCHANGED <<user, prof_email, prof_message, isEditOpen>>
    /\ UNCHANGED <<prof_displayName, about, socials, editVars, socialError,
                   passwordError>>
    /\ save_before' = IF resolved /\ ~save_call.isPasswordChanging
                      THEN ProfileFields'
                      ELSE save_before
    /\ UNCHANGED <<view, loginHistory, initializing, lastUserIdRef,
                   authCompleting, signingOut, app_clock, auth_prev>>
    /\ UNCHANGED outsideProfile

\* handleSaveProfile after onUpdatePassword settled
handleSaveProfile_passwordSettled(resolved) ==
    /\ save_call.at = "onUpdatePassword"
    /\ IF resolved
       THEN Save_finish /\ UNCHANGED prof_error
       ELSE Save_catch /\ UNCHANGED <<prof_message, isEditOpen>>
    /\ UNCHANGED <<prof_displayName, prof_email, about, socials, editVars,
                   socialError, passwordError>>
    /\ save_before' = IF resolved THEN ProfileFields ELSE save_before
    /\ UNCHANGED <<appVars, outsideProfile>>

\* ProfilePage after mount, for the signed-in account u1
InitProfile ==
    /\ ChartsIdle
    /\ AsyncIdle
    /\ ConverterIdle
    /\ TrendIdle
    /\ AlertsIdle
    /\ RegisterIdle
    /\ view = "profile"
    /\ user \in {ProfileOf(fu) : fu \in {f \in FirebaseUsers : f.uid = "u1"}}
    /\ loginHistory = <<[id |-> 0, timestamp |-> 0]>>
    /\ initializing = FALSE
    /\ lastUserIdRef = "u1"
    /\ authCompleting = FALSE
    /\ signingOut = FALSE
    /\ app_clock = 0
    /\ auth_prev = "u1"
    /\ prof_displayName = user.displayName
    /\ prof_email = user.email
    /\ about = <<>>
    /\ socials = NoSocials
    /\ isEditOpen = FALSE
    /\ editName = <<>>
    /\ editEmail = <<>>
    /\ editAbout = <<>>
    /\ editTwitter = <<>>
    /\ editLinkedin = <<>>
    /\ editInstagram = <<>>
    /\ oldPassword = <<>>
    /\ newPassword = <<>>
    /\ edit_confirmPassword = <<>>
    /\ socialError = NoError
    /\ passwordError = NoError
    /\ prof_message = NoError
    /\ prof_error = NoError
    /\ savingProfile = FALSE
    /\ save_call = NoSave
    /\ save_before = ProfileFields

NextProfile ==
    \/ openEditModal
    \/ closeEditModal
    \/ \E text \in EditNames : SetEditName(text)
    \/ \E text \in EditEmails : SetEditEmail(text)
    \/ \E text \in EditAbouts : SetEditAbout(text)
    \/ \E text \in EditLinks : SetEditTwitter(text)
    \/ \E text \in EditLinks : SetEditLinkedin(text)
    \/ \E text \in EditLinks : SetEditInstagram(text)
    \/ \E text \in OldPasswords : SetOldPassword(text)
    \/ \E text \in NewPasswords : SetNewPassword(text)
    \/ \E text \in ConfirmPasswords : Profile_SetConfirmPassword(text)
    \/ handleSaveProfile
    \/ \E resolved \in BOOLEAN : handleSaveProfile_emailSettled(resolved)
    \/ \E resolved \in BOOLEAN : handleSaveProfile_passwordSettled(resolved)

SpecProfile == InitProfile /\ [][NextProfile]_vars

(***************************************************************************)
(* Claim about every asynchronous lookup.                                  *)
(***************************************************************************)
\* request id is answered in this step
Answered(id) ==
    /\ \E r \in requests : r.id = id
    /\ \A r \in requests' : r.id # id

\* C3: every asynchronous operation checks a staleness flag when it
\* resolves: no step writes a result to the state of a component that is
\* unmounted (the rate fetch, the currency-list fetch, the daily-FX fetch,
\* the geolocation and reverse-geocoding lookup), and the answer to a
\* superseded rate request writes nothing.
C3_NoWriteWhenStale ==
    [][ /\ ~mounted => UNCHANGED <<rates, loading, error>>
        /\ \A id \in 1..issued :
             (id < issued /\ Answered(id)) => UNCHANGED <<rates, loading, error>>
        /\ ~dd_mounted => UNCHANGED <<currencies, dd_loading, apiError>>
        /\ ~prof_mounted => UNCHANGED <<fxRates, fxError>>
        /\ ~prof_mounted => UNCHANGED currentLocation
      ]_vars

(***************************************************************************)
(* Claims about the rate fetch of the chart components.                    *)
(***************************************************************************)
\* C1: over every sequence of base changes and every arrival order of the
\* responses, the answer to a superseded request (one that is not the most
\* recently issued) changes neither rates nor the error message nor the
\* loading flag, and rates is written only by the answer to the most recently
\* issued request.
C1_OnlyLatestRequestWrites ==
    [][ /\ \A id \in 1..issued :
             (id < issued /\ Answered(id)) => UNCHANGED <<rates, error, loading>>
        /\ rates' # rates => Answered(issued)
      ]_vars

\* C1 witness: responses arrived out of order: the answer to the latest
\* request was applied, the answer to a superseded request came last and was
\* discarded, and the rates on display are still those of the latest request.
C1_Witness ==
    /\ mounted
    /\ issued >= 2
    /\ requests = {}
    /\ lastAnswer = "discarded"
    /\ rates.kind = "map"
    /\ ratesBase = baseCurrency
    /\ baseCurrency # "USD"
    /\ ~loading

\* C2: whenever rows are built for base B from a snapshot, that snapshot was
\* fetched (or, as a fallback, computed) for B.
C2_SnapshotFetchedForBase ==
    (rates.kind = "map" /\ ratesBase # NoBase) => ratesBase = baseCurrency

(***************************************************************************)
(* Claims about the rows.                                                  *)
(***************************************************************************)
FocusRows(rs) == {i \in 1..Len(rs) : rs[i].isFocus}

RowCodes(rs) == {rs[i].code : i \in 1..Len(rs)}

SnapshotKeys == {rates.entries[i].code : i \in 1..Len(rates.entries)}

PositiveSnapshot ==
    rates.kind = "map" /\ \A i \in 1..Len(rates.entries) : rates.entries[i].rate > 0

\* the codes of list in CurrencyChartsSection
ListCodes == {ROWS[i] : i \in 1..Len(ROWS)} \cup {baseCurrency, focusCurrency}

FocusResolvable ==
    IF component = "full"
    THEN rates.kind = "map" /\ Get(rates, focusCurrency) \notin {NoValue, 0}
    ELSE Get(rates, focusCurrency) # NoValue
         \/ crossRate(baseCurrency, focusCurrency) # NoValue

C5_NoAbsentOrZeroRate ==
    LET rs == rows
    IN  \A i \in 1..Len(rs) : rs[i].rate # NoValue /\ rs[i].rate # 0

C8_BaseNeverARow ==
    LET rs == rows
    IN  /\ \A i \in 1..Len(rs) : rs[i].code # baseCurrency
        /\ focusCurrency = baseCurrency => FocusRows(rs) = {}

\* C8 witness: the snapshot has the base currency as a key, there are rows,
\* and focus equals base.
C8_Witness ==
    /\ rates.kind = "map"
    /\ baseCurrency \in SnapshotKeys
    /\ focusCurrency = baseCurrency
    /\ Len(rows) >= 2

\* C9: every focus row precedes every other row, and the other rows are in
\* strictly ascending order of code.
C9_FocusFirstThenAscending ==
    LET rs == rows
    IN  \A i, j \in 1..Len(rs) :
            i < j =>
                /\ ~(~rs[i].isFocus /\ rs[j].isFocus)
                /\ (~rs[i].isFocus /\ ~rs[j].isFocus)
                      => localeCompare(rs[i].code, rs[j].code) < 0

\* C9 witness: a focus row that is alphabetically last stands before three
\* or more other rows.
C9_Witness ==
    LET rs == rows
    IN  /\ Len(rs) >= 4
        /\ rs[1].isFocus
        /\ \A i \in 2..Len(rs) : localeCompare(rs[1].code, rs[i].code) > 0

\* what C10 says a range change keeps: codes, rates and focus flags in order
RowFrame(rs) ==
    [i \in 1..Len(rs) |->
        [code |-> rs[i].code, rate |-> rs[i].rate, isFocus |-> rs[i].isFocus]]

\* C10: a step that changes the range changes neither pair, display mode
\* nor snapshot, and with these as they are the rows built for any other
\* range have the same sequence of codes, the same rates and the same focus
\* flags as the rows on display.
C10_RangeKeepsRows ==
    /\ [](LET before == RowFrame(rows)
          IN  \A key \in RangeKeys : RowFrame(RowsFor(key)) = before)
    /\ [][range' # range
            => UNCHANGED <<fromCurrency, toCurrency, inverse, rates>>]_vars

\* C10 witness: the range was changed away from 24H while rows are shown,
\* and the trend has another length than under 24H.
C10_Witness ==
    LET rs == rows
    IN  /\ range = "3M"
        /\ Len(rs) >= 3
        /\ Len(rs[1].values) \in {28, 30}

(***************************************************************************)
(* Claims about failed and malformed answers.                              *)
(***************************************************************************)
\* the most recently issued request of the chart component has been answered
LatestAnswered == \A r \in requests : r.id # issued

\* the converter's effect last ran for a pair of two currencies, and the
\* request it issued has been answered
Conv_LatestAnswered ==
    /\ conv_fromCurrency # conv_toCurrency
    /\ \A r \in conv_requests : r.id # conv_issued

\* the state a failed fetch for the current base leaves in a chart component
Chart_FailureState ==
    /\ ~loading
    /\ IF component = "full"
       THEN rates = NullRates /\ error = Full_ErrorMessage
       ELSE rates = Section_fallback(baseCurrency) /\ error = Section_ErrorMessage

\* the state a failed fetch leaves in the converter
Conv_FailureState ==
    /\ ~rateLoading
    /\ liveRate = NoValue
    /\ rateError = Conv_ErrorMessage

\* C11: whenever the most recently issued rate fetch fails or returns a
\* non-success status, the component (either chart component, the converter)
\* ends with a fallback / sample rate set on display, an inline notice and
\* the loading flag false.
C11_FailureShowsFallback ==
    /\ (mounted /\ lastAnswer = "failed" /\ LatestAnswered)
          => (~loading /\ error # NoError /\ rows # <<>>)
    /\ (conv_mounted /\ conv_lastAnswer = "failed" /\ Conv_LatestAnswered)
          => (~rateLoading /\ rateError # NoError /\ ~Falsy(Conv_crossRate))

\* C12: a fetch that succeeds at HTTP level but whose body lacks the rates
\* field leaves the component (rates, notice, loading flag) as a failed fetch
\* for the same base currency does, in both chart components and in the
\* converter.
C12_MissingRatesLikeFailure ==
    /\ (mounted /\ lastAnswer = "ok_norates" /\ LatestAnswered)
          => Chart_FailureState
    /\ (conv_mounted /\ conv_lastAnswer = "ok_norates" /\ Conv_LatestAnswered)
          => Conv_FailureState

(***************************************************************************)
(* Claims about makeTrend.                                                 *)
(***************************************************************************)
\* the call under way has returned its values
Returned == trend_call.site # "none" /\ trend_call.values # <<>>

\* the ranges after rangeKey in the order 24H, 7D, 30D, 3M
LongerRanges(rangeKey) ==
    IF rangeKey = "24H" THEN {"7D", "30D", "3M"}
    ELSE IF rangeKey = "7D" THEN {"30D", "3M"}
    ELSE IF rangeKey = "30D" THEN {"3M"}
    ELSE {}

\* C13: makeTrend(range, seed) returns a sequence whose length depends only
\* on range (it is the length returned for seed 0), lies within 16..18 for
\* 24H, 20..22 for 7D, 24..26 for 30D and 28..30 for 3M, and is shorter than
\* the length for every later range in the order 24H, 7D, 30D, 3M, at both
\* call sites.
C13_TrendLength ==
    Returned =>
        LET c == trend_call
            n == Len(c.values)
        IN  /\ n = Len(Site_makeTrend(c.site, c.rangeKey, 0))
            /\ c.rangeKey = "24H" => n \in 16..18
            /\ c.rangeKey = "7D" => n \in 20..22
            /\ c.rangeKey = "30D" => n \in 24..26
            /\ c.rangeKey = "3M" => n \in 28..30
            /\ \A later \in LongerRanges(c.rangeKey) :
                  n < Len(Site_makeTrend(c.site, later, c.seed))

\* C13 witness: a call for 7D with a negative seed has returned 20 or 22
\* values.
C13_Witness ==
    /\ Returned
    /\ trend_call.rangeKey = "7D"
    /\ trend_call.seed < -11
    /\ Len(trend_call.values) \in {20, 22}

\* C15: for every range and every seed, every value of the sequence
\* makeTrend returns is strictly positive.
C15_TrendPositive ==
    Returned => \A i \in 1..Len(trend_call.values) : trend_call.values[i] > 0

\* C15 witness: a 3M call with a negative seed whose walk has gone below 0.7.
C15_Witness ==
    /\ Returned
    /\ trend_call.rangeKey = "3M"
    /\ trend_call.seed < 0
    /\ \E i \in 1..Len(trend_call.values) : trend_call.values[i] < 7000

\* s of step i (0-based) of the call c: the shifted seed times the shifted index
StepHash(c, i) ==
    IF c.site = "full" THEN (c.seed + 11) * (i + 17) ELSE (c.seed + 7) * (i + 11)

\* C16: for every seed, negative ones included, and every step i, the
\* pseudo-random value of the step lies in [-1, 1] (RandNum is rand * 233280),
\* so the step changes the value by at most the spread fraction of the range.
C16_RandWithinUnit ==
    Returned =>
        \A i \in 0..(Len(trend_call.values) - 1) :
            LET rand == RandNum(StepHash(trend_call, i))
                before == IF i = 0 THEN 10000 ELSE trend_call.values[i]
                after == trend_call.values[i + 1]
                bound == (before * Spread(trend_call.rangeKey)) \div 1000 + 1
            IN  /\ rand >= -233280 /\ rand <= 233280
                /\ after - before <= bound /\ before - after <= bound

C17_BaseFocusByMode ==
    LET rs == rows
        base == IF inverse THEN toCurrency ELSE fromCurrency
        focus == IF inverse THEN fromCurrency ELSE toCurrency
    IN  /\ baseCurrency = base
        /\ focusCurrency = focus
        /\ mounted => \A r \in requests : r.id = issued => r.base = base
        /\ \A i \in 1..Len(rs) : rs[i].isFocus <=> rs[i].code = focus

\* C17 witness: inverse mode with two different currencies, the fetch for
\* toCurrency in flight and the row of fromCurrency shown as the focus row.
C17_Witness ==
    LET rs == rows
    IN  /\ mounted
        /\ inverse
        /\ fromCurrency # toCurrency
        /\ \E r \in requests : r.id = issued /\ r.base = toCurrency
        /\ rs # <<>>
        /\ rs[1].isFocus
        /\ rs[1].code = fromCurrency

(***************************************************************************)
(* Claims about GetAlertsSection.                                          *)
(***************************************************************************)
\* C18: loadAlerts never fails: it returns the stored value exactly when the
\* entry exists and parses as a JSON array, and the empty list when the
\* entry is missing, is no valid JSON, parses to a non-array, or reading the
\* storage throws.
C18_LoadAlertsNeverFails ==
    [][ al_phase = "constructed" =>
          /\ al_phase' = "mounted"
          /\ existingAlerts' =
                IF storage.kind = "array"
                THEN [i \in 1..Len(storage.items) |-> ParseItem(storage.items[i])]
                ELSE <<>>
      ]_vars

\* C18 witness: the page is mounted over a stored array of one alert, and
\* the list on the page is that array.
C18_Witness ==
    /\ al_phase = "mounted"
    /\ storage = JSON_stringify(<<EarlierAlert>>)
    /\ existingAlerts = <<EarlierAlert>>

\* the form fails validation: a currency missing, from equal to to, target
\* rate empty, not finite or not > 0, email empty or lacking "@" or "."
FormInvalid ==
    \/ al_fromCurrency = "" \/ al_toCurrency = ""
    \/ al_fromCurrency = al_toCurrency
    \/ targetRate = <<>>
    \/ ~IsFinite(Number(targetRate)) \/ Number(targetRate).value <= 0
    \/ email = <<>>
    \/ ~StrIncludes(email, "@") \/ ~StrIncludes(email, ".")

\* C19: when handleSubmit runs on a form that fails validation, an error
\* message is set and the in-memory alert list, the persisted list, the
\* target-rate input and the email input are unchanged.
C19_RejectedSubmitKeepsState ==
    [][ (FormInvalid /\ \E now \in ClockReadings : handleSubmit(now)) =>
          /\ al_error' # NoError
          /\ UNCHANGED <<existingAlerts, storage, targetRate, email>>
      ]_vars

\* C19 witness: after an alert was saved, a submit with an email lacking "."
\* was rejected; the list still holds the one alert saved.
C19_Witness ==
    /\ al_phase = "mounted"
    /\ al_error = "Please enter a valid email address."
    /\ ~StrIncludes(email, ".")
    /\ Len(existingAlerts) = Len(al_loaded) + 1
    /\ storage = JSON_stringify(existingAlerts)

\* a well-formed alert record
ValidAlert(a) ==
    /\ a.tag = "alert"
    /\ IsFinite(a.threshold) /\ a.threshold.value > 0
    /\ a.from # "" /\ a.to # "" /\ a.from # a.to
    /\ a.email # <<>> /\ Trim(a.email) = a.email
    /\ a.schedule = <<"06:00", "19:00">>

\* C20: every alert record handleSubmit has added to the list (the records
\* before the ones loaded at mount) has a finite threshold > 0, non-empty and
\* different from and to codes, a non-empty trimmed email and the schedule
\* 06:00, 19:00; when the page was mounted over empty storage, every record
\* of the persisted list is such a record.
C20_AddedAlertsValid ==
    /\ \A i \in 1..(Len(existingAlerts) - Len(al_loaded)) :
          ValidAlert(existingAlerts[i])
    /\ (al_phase = "mounted" /\ al_loaded = <<>> /\ storage.kind = "array") =>
          \A i \in 1..Len(storage.items) : ValidAlert(ParseItem(storage.items[i]))

\* C20 witness: starting from no entry, two alerts with different thresholds
\* were saved and persisted, the email typed with blanks around it.
C20_Witness ==
    /\ al_loaded = <<>>
    /\ storage.kind = "array"
    /\ Len(storage.items) = 2
    /\ storage.items[1].threshold # storage.items[2].threshold
    /\ email # Trim(email)
    /\ storage.items[1].email = Trim(email)

(***************************************************************************)
(* Claim about the seed of a row's trend.                                  *)
(***************************************************************************)
\* the candidate list of the render: the codes the component iterates over
\* before the base and the rows without a rate are removed
CandidateList ==
    IF component = "full"
    THEN IF rates.kind = "map"
         THEN Full_codes(rates, baseCurrency, focusCurrency)
         ELSE <<>>
    ELSE Section_list(baseCurrency, focusCurrency)

\* the offset of the display mode
ModeOffset ==
    IF ~inverse THEN 0 ELSE IF component = "full" THEN 20 ELSE 10

TrendOf(key, seed) ==
    IF component = "full" THEN Full_trends[key][seed] ELSE Section_trends[key][seed]

\* C21: each output row's trend equals makeTrend(range, index + offset),
\* index being the position of the row's code in the candidate list (before
\* the base currency and the rows without a rate are removed) and offset the
\* constant of the display mode.
C21_TrendSeedIsCandidateIndex ==
    mounted =>
        LET rs == rows
            cand == CandidateList
        IN  \A k \in 1..Len(rs) :
                \E i \in 1..Len(cand) :
                    /\ cand[i] = rs[k].code
                    /\ rs[k].values = TrendOf(range, (i - 1) + ModeOffset)

(***************************************************************************)
(* Claim about the converter's pair of equal currencies.                   *)
(***************************************************************************)
\* C24: in CurrencyConverterSection, whenever fromCurrency equals toCurrency
\* liveRate is 1, rateLoading is false and rateError is null, in every state
\* from the effect's run for that pair on: no response of a fetch issued for
\* an earlier pair changes these values.
C24_SamePairRateIsOne ==
    (conv_issued > 0 /\ conv_fromCurrency = conv_toCurrency) =>
        /\ liveRate = 10000
        /\ rateLoading = FALSE
        /\ rateError = NoError

\* C24 witness: the pair was made equal while the only request issued was in
\* flight, and that request's answer has arrived since and was discarded.
C24_Witness ==
    /\ conv_mounted
    /\ conv_fromCurrency = conv_toCurrency
    /\ conv_issued = 1
    /\ conv_requests = {}
    /\ conv_lastAnswer = "discarded"
    /\ liveRate = 10000

(***************************************************************************)
(* Claims about the list of alerts and its stored copy.                    *)
(***************************************************************************)
\* C27: in GetAlertsSection, whenever a submit ended with the success flag
\* saved = true, the list stored under the local-storage key is the in-memory
\* list existingAlerts, for every outcome of the storage write.
C27_SavedMeansPersisted ==
    (al_phase = "mounted" /\ saved) => storage = JSON_stringify(existingAlerts)

\* C28: each successful handleSubmit makes the alert list the new alert
\* followed by the previous list, and once the list is loaded at mount no step
\* of the component changes it in any other way: no alert is removed or
\* reordered.
C28_SubmitPrependsOnly ==
    [][ al_phase = "mounted" =>
          /\ (~FormInvalid /\ \E now \in ClockReadings : handleSubmit(now)) =>
                \E now \in ClockReadings :
                    existingAlerts' =
                        <<Alert(al_fromCurrency, al_toCurrency, Number(targetRate),
                                Trim(email), now)>> \o existingAlerts
          /\ \/ existingAlerts' = existingAlerts
             \/ /\ Len(existingAlerts') = Len(existingAlerts) + 1
                /\ SubSeq(existingAlerts', 2, Len(existingAlerts')) = existingAlerts
      ]_vars

\* C28 witness: two alerts with different thresholds were added in front of
\* the one alert loaded at mount.
C28_Witness ==
    /\ al_phase = "mounted"
    /\ al_loaded = <<EarlierAlert>>
    /\ Len(existingAlerts) = 3
    /\ existingAlerts[3] = EarlierAlert
    /\ existingAlerts[1].threshold # existingAlerts[2].threshold

C22_SignedOutNeverProtected ==
    (view # "none" /\ user = NullUser) => view \notin ProtectedViews

\* the login-history entries read newest first
NewestFirst ==
    \A i, j \in 1..Len(loginHistory) :
        i < j => loginHistory[i].timestamp >= loginHistory[j].timestamp

\* C23: across any sequence of auth-state events, App prepends exactly one
\* login-history entry each time the signed-in uid differs from the uid the
\* previous event carried (a sign-in after a sign-out included) and adds none
\* when consecutive events carry the same uid; no step removes an entry and
\* the list stays ordered newest first.
C23_OneEntryPerNewUid ==
    /\ []NewestFirst
    /\ [][ /\ \A firebaseUser \in FirebaseUsers \cup {NoFirebaseUser} :
                (\E tick \in {0, 1} : AuthStateChanged(firebaseUser, tick)) =>
                    IF firebaseUser # NoFirebaseUser
                       /\ firebaseUser.uid # auth_prev
                    THEN /\ Len(loginHistory') = Len(loginHistory) + 1
                         /\ SubSeq(loginHistory', 2, Len(loginHistory'))
                               = loginHistory
                    ELSE loginHistory' = loginHistory
           /\ \/ loginHistory' = loginHistory
              \/ /\ Len(loginHistory') = Len(loginHistory) + 1
                 /\ SubSeq(loginHistory', 2, Len(loginHistory')) = loginHistory
         ]_vars

\* C23 witness: u1 signed in, signed out and signed in again, the clock
\* moving between the two sign-ins: two entries, the later one first.
C23_Witness ==
    /\ Len(loginHistory) = 2
    /\ loginHistory[1].timestamp > loginHistory[2].timestamp
    /\ auth_prev = "u1"
    /\ lastUserIdRef = "u1"
    /\ user = ProfileOf([uid |-> "u1", email |-> <<"a", "@", "b", ".", "c">>,
                         displayName |-> <<>>])

\* C25: after any sequence of navigation actions, auth-state events and
\* logouts in App, view = profile implies user is not null.
C25_ProfileOnlySignedIn ==
    view = "profile" => user # NullUser

\* C25 witness: the profile of a signed-in user is on display while a
\* logout awaits its answer.
C25_Witness ==
    /\ view = "profile"
    /\ user # NullUser
    /\ signingOut

(***************************************************************************)
(* Claim about RegisterPage.                                               *)
(***************************************************************************)
\* what the account is to be created from is complete and verified
RegistrationComplete ==
    /\ step = 4
    /\ reg_email # <<>>
    /\ StrIncludes(reg_email, "@") /\ StrIncludes(reg_email, ".")
    /\ Len(password) >= 6
    /\ password = confirmPassword
    /\ \A i \in 1..6 : Len(codeInputs[i]) = 1 /\ IsDigit(codeInputs[i][1])
    /\ generatedCode # <<>>
    /\ JoinTexts(codeInputs) = generatedCode
    /\ agreeTerms
    /\ firstName # <<>>
    /\ lastName # <<>>

\* C26: in RegisterPage, for every sequence of Continue, Back and field
\* edits, createUserWithEmailAndPassword is invoked only in a state where
\* step = 4, the email is non-empty and contains "@" and ".", the password
\* has at least 6 characters and equals confirmPassword, the six entered
\* digits equal the currently generated verification code, agreeTerms is true,
\* and first and last name are non-empty.
C26_CreateOnlyWhenComplete ==
    [][ (reg_pc # "create" /\ reg_pc' = "create") => RegistrationComplete ]_vars

\* C26 witness: createUserWithEmailAndPassword has been invoked and is
\* awaited, the four steps passed.
C26_Witness ==
    /\ reg_pc = "create"
    /\ reg_loading
    /\ RegistrationComplete

(***************************************************************************)
(* Claim C30: when a save ends with "Could not update profile. Please try  *)
(* again." (the email or the password update was rejected), the display    *)
(* name, the about text, the social links and the email are what they were *)
(* when that save began, on the card and in the user App holds.            *)
(***************************************************************************)
C30_FailedSaveChangesNothing ==
    prof_error = Profile_SaveErrorMessage => ProfileFields = save_before

====
